---- MODULE Spec2Model ----
(***************************************************************************)
(* A model of the response resolver of graphql-go-tools (package resolve)  *)
(* and of the claims made about it.                                        *)
(*                                                                         *)
(* Bytes are modelled as sequences of one-character strings.  A            *)
(* bytes.Buffer is a backing array (mem) with a length (len): Reset sets   *)
(* the length to 0 and keeps the array, Write copies into the array at     *)
(* the length, Bytes returns a slice that aliases the array.               *)
(*                                                                         *)
(* SpecFlight is the single-flight protocol of resolveSingleFetch run by   *)
(* concurrent goroutines, SpecFetch the successive resolveFetch calls on   *)
(* one SingleFetch, SpecWalk one ResolveGraphQLResponse call over a shape  *)
(* tree.  In the walk a BufPair is the bytes of its buffers, JSON data is  *)
(* a tree of values that jsonparser.Get is computed on, and a Load of a    *)
(* data source is a function of its input, except for the "flaky" source   *)
(* whose failing calls the initial state chooses.                          *)
(***************************************************************************)
EXTENDS Integers, Sequences, FiniteSets, TLC

VARIABLES
  \* ---- single-flight (Resolver.resolveSingleFetch) ----
  pc,              \* position of each goroutine
  calls,           \* number of resolveSingleFetch calls each goroutine began
  fetch,           \* the *SingleFetch of the running call
  pbuf,            \* the *BufPair the caller passed (set.buffers[BufferId])
  inflight,        \* the local variable inflight (a record)
  perr,            \* the local variable err
  ret,             \* the value the call returned
  mu,              \* Resolver.inflightFetchMu: 0 or its holder
  inflightFetches, \* Resolver.inflightFetches
  recs,            \* the inflightFetch records
  recPool,         \* Resolver.inflightFetchPool
  bufs,            \* the BufPairs
  bufPool,         \* Resolver.bufPairPool
  follows,         \* history: the leader call whose record a follower found
  produced,        \* history: what each leader call's Load produced
  released,        \* history: the leader calls whose gate was open when the call began
  \* ---- the shape tree and the fetches of one object (Resolver.resolveFetch) ----
  theHeap,         \* the fields of the shape tree the resolver assigns
  fpc,             \* position of the resolveFetch call
  nreq,            \* number of resolveFetch calls begun
  last,            \* the running (or last) resolveFetch call and the input it loads
  subst,           \* the locals of a running resolveVariables call
  \* ---- one ResolveGraphQLResponse call ----
  response,        \* response.Data, the root of the shape tree
  reqData,         \* the data argument
  reqCtx,          \* ctx.Variables
  mapRev,          \* whether ranges over a result set and inner goroutines run in reverse
  wpc,             \* position of the call
  itemBufs,        \* *bufSlice of the root array's resolveArrayAsynchronous
  finished,        \* the element goroutines that called wg.Done, in that order
  errChan,         \* errCh of the root array's resolveArrayAsynchronous
  taskErr,         \* history: the error each element's resolveNode returned
  walked,          \* the error resolveNode returned and buf after it
  sink,            \* the bytes written to writer
  sinkFails,       \* the Write calls of writer that return an error
  sinkCalls,       \* the Write calls made to writer
  retErr,          \* the error ResolveGraphQLResponse returned
  \* ---- the result set of one object with a ParallelFetch ----
  spc,             \* position of resolveObject
  pfetch,          \* object.Fetch: the sub-fetches
  prepared,        \* number of sub-fetches prepareSingleFetch was called for
  setBuffers,      \* set.buffers: BufferId -> *BufPair
  taskBuf,         \* the buf argument of each sub-fetch goroutine
  taskPc,          \* position of each sub-fetch goroutine
  drawn,           \* history: the pairs got from bufPairPool in the call
  puts,            \* history: how often each pair was put to bufPairPool in the call
  writers,         \* history: the goroutines that wrote to each pair
  \* ---- the execution engine (ExecutionEngineV2) ----
  engine           \* its middleware fields, and what was registered and entered

flightVars == <<pc, calls, fetch, pbuf, inflight, perr, ret, mu, inflightFetches,
                recs, recPool, bufs, bufPool, follows, produced, released>>

fetchVars == <<theHeap, fpc, nreq, last, subst>>

walkVars == <<response, reqData, reqCtx, mapRev, wpc, itemBufs, finished, errChan, taskErr,
              walked, sink, sinkFails, sinkCalls, retErr>>

setVars == <<spc, pfetch, prepared, setBuffers, taskBuf, taskPc, drawn, puts, writers>>

vars == <<flightVars, fetchVars, walkVars, setVars, engine>>

----------------------------------------------------------------------------
\* Bounds of the model.
NProcs == 2
MaxCalls == 2
NBufs == 2
NRecs == 2
MaxRequests == 3

Procs == 1..NProcs
Bufs == 1..NBufs
Recs == 1..NRecs

----------------------------------------------------------------------------
\* bytes.Buffer and BufPair

NilErr == "nil"

EmptyBuffer == [mem |-> <<>>, len |-> 0]

\* bytes.Buffer.Bytes / String: the first len bytes of the backing array
Bytes(b) == SubSeq(b.mem, 1, b.len)

\* bytes.Buffer.Write: copy w into the backing array at the length
BufWrite(b, w) ==
  [mem |-> SubSeq(b.mem, 1, b.len) \o w \o SubSeq(b.mem, b.len + Len(w) + 1, Len(b.mem)),
   len |-> b.len + Len(w)]

\* bytes.Buffer.Reset: the length becomes 0, the array is kept
BufReset(b) == [mem |-> b.mem, len |-> 0]

NewBufPair == [Data |-> EmptyBuffer, Errors |-> EmptyBuffer]

\* BufPair.Reset
BufPairReset(bp) == [Data |-> BufReset(bp.Data), Errors |-> BufReset(bp.Errors)]

\* A []byte that aliases a BufPair's backing array: the pair, and the length.
NilSlice == [buf |-> 0, n |-> 0]
SliceOf(b, n) == [buf |-> b, n |-> n]

----------------------------------------------------------------------------
\* JSON.  A JSON text is modelled by the value it denotes: k is the kind,
\* s the bytes of a scalar (a string's without its quotes) and c the members
\* of an object (key, val) or the elements of an array (val), in the order
\* of the text.  NotExist stands for bytes that hold no value at the path
\* (and for nil).  Raw stands for the bytes of a string value taken out of
\* its quotes, which is how jsonparser hands a string value on.

NotExist == [k |-> "NotExist", s |-> <<>>, c |-> <<>>]
JNum(d) == [k |-> "Number", s |-> <<d>>, c |-> <<>>]
JStr(b) == [k |-> "String", s |-> b, c |-> <<>>]
JNull == [k |-> "Null", s |-> <<"n", "u", "l", "l">>, c |-> <<>>]
JObj(members) == [k |-> "Object", s |-> <<>>, c |-> members]
JArr(elems) == [k |-> "Array", s |-> <<>>, c |-> [i \in 1..Len(elems) |-> [key |-> "", val |-> elems[i]]]]
M(key, val) == [key |-> key, val |-> val]

\* the first member with the key, 0 when there is none
MemberIndex(v, key) ==
  LET I == {i \in 1..Len(v.c) : v.c[i].key = key}
  IN IF v.k # "Object" \/ I = {} THEN 0 ELSE CHOOSE i \in I : \A j \in I : i <= j

\* jsonparser.Get(data, path...): the value at the path; its kind is the
\* dataType, a kind of NotExist is the error
RECURSIVE JGet(_, _)
JGet(v, path) ==
  IF path = <<>>
    THEN IF v.k \in {"Raw", "NotExist"} THEN NotExist ELSE v
    ELSE IF MemberIndex(v, Head(path)) = 0 THEN NotExist
         ELSE JGet(v.c[MemberIndex(v, Head(path))].val, Tail(path))

\* the bytes jsonparser.Get returns, as the data of a later Get: a string
\* value comes without its quotes
AsData(v) == IF v.k = "String" THEN [k |-> "Raw", s |-> v.s, c |-> <<>>] ELSE v

RECURSIVE Flatten(_)
Flatten(ss) == IF ss = <<>> THEN <<>> ELSE Head(ss) \o Flatten(Tail(ss))

\* the bytes of a value as jsonparser.Get returns them: a scalar's own
\* bytes, the text of an object or an array
RECURSIVE JText(_)
JText(v) ==
  CASE v.k = "Object" ->
         <<"{">> \o Flatten([i \in 1..Len(v.c) |->
                     (IF i > 1 THEN <<",">> ELSE <<>>) \o <<"\"", v.c[i].key, "\"", ":">>
                     \o (IF v.c[i].val.k = "String" THEN <<"\"">> \o v.c[i].val.s \o <<"\"">>
                         ELSE JText(v.c[i].val))]) \o <<"}">>
    [] v.k = "Array" ->
         <<"[">> \o Flatten([i \in 1..Len(v.c) |->
                     (IF i > 1 THEN <<",">> ELSE <<>>)
                     \o (IF v.c[i].val.k = "String" THEN <<"\"">> \o v.c[i].val.s \o <<"\"">>
                         ELSE JText(v.c[i].val))]) \o <<"]">>
    [] OTHER -> v.s

----------------------------------------------------------------------------
\* Variables and Resolver.resolveVariables.  A []byte is a slice (arr, len)
\* of a backing array; the arrays are the sequence arrs, whose lengths are
\* their capacities.

ContextVariable(path) == [kind |-> "Context", path |-> path]
ObjectVariable(path) == [kind |-> "Object", path |-> path]

\* strconv.Itoa(i), for the indices the model uses
Itoa(i) == <<(<<"0", "1", "2", "3", "4", "5", "6", "7", "8", "9">>)[i + 1]>>

\* []byte("$$" + strconv.Itoa(i) + "$$")
VariableName(i) == <<"$", "$">> \o Itoa(i) \o <<"$", "$">>

\* bytes.Index(s, sub), counted from 1; 0 when sub does not occur
Index(s, sub) ==
  LET J == {j \in 1..(Len(s) - Len(sub) + 1) : SubSeq(s, j, j + Len(sub) - 1) = sub}
  IN IF J = {} THEN 0 ELSE CHOOSE j \in J : \A i \in J : j <= i

\* the bytes of a slice
SliceContent(arrs, sl) == SubSeq(arrs[sl.arr], 1, sl.len)

\* append(before, tail...) where before is the first n bytes of array a:
\* in place when the capacity suffices, else into a new array
AppendTo(arrs, a, n, tail) ==
  IF n + Len(tail) <= Len(arrs[a])
    THEN [arrs |-> [arrs EXCEPT ![a] = SubSeq(@, 1, n) \o tail \o SubSeq(@, n + Len(tail) + 1, Len(@))],
          sl |-> [arr |-> a, len |-> n + Len(tail)]]
    ELSE [arrs |-> Append(arrs, SubSeq(arrs[a], 1, n) \o tail),
          sl |-> [arr |-> Len(arrs) + 1, len |-> n + Len(tail)]]

\* a substitution that replaces the first occurrence of the name only and
\* appends the value when the name does not occur
ReplaceFirstOrAppend(arrs, input, variableName, value) ==
  LET content == SliceContent(arrs, input)
      j == Index(content, variableName)
  IN IF j = 0 THEN AppendTo(arrs, input.arr, input.len, value)
     ELSE AppendTo(arrs, input.arr, j - 1,
                   value \o SubSeq(content, j + Len(variableName), Len(content)))

\* the inner loop of resolveVariables: replace every occurrence of the name
RECURSIVE ReplaceLoop(_, _, _, _)
ReplaceLoop(arrs, input, variableName, value) ==
  LET content == SliceContent(arrs, input)
      j == Index(content, variableName)
      after == SubSeq(content, j + Len(variableName), Len(content))
      r == AppendTo(arrs, input.arr, j - 1, value \o after)
  IN IF j = 0 THEN [arrs |-> arrs, sl |-> input]
     ELSE ReplaceLoop(r.arrs, r.sl, variableName, value)

\* Resolver.resolveVariables, from variable i on (variables are counted from 0)
RECURSIVE resolveVariablesFrom(_, _, _, _, _, _)
resolveVariablesFrom(i, ctxVariables, variables, data, arrs, input) ==
  IF i >= Len(variables) THEN [arrs |-> arrs, sl |-> input]
  ELSE LET v == variables[i + 1]
           source == IF v.kind = "Context" THEN ctxVariables ELSE data
           value == JGet(source, v.path)
           r == IF value.k = "NotExist" THEN [arrs |-> arrs, sl |-> input]
                ELSE ReplaceLoop(arrs, input, VariableName(i), JText(value))
       IN resolveVariablesFrom(i + 1, ctxVariables, variables, data, r.arrs, r.sl)

resolveVariables(ctxVariables, variables, data, arrs, input) ==
  resolveVariablesFrom(0, ctxVariables, variables, data, arrs, input)

----------------------------------------------------------------------------
\* The fetches of the shape trees (the *SingleFetch values the planner built)
\* and their data sources.  A fetch is named by its number; its Input is the
\* one field the resolver assigns, so it lives in the heap.

errNonNullableFieldValueIsNull == "errNonNullableFieldValueIsNull"
errTypeNameSkipped == "errTypeNameSkipped"
loadErr == "loadErr"

SingleFetches == 1..5

BufferId(f) == IF f \in {1, 3, 5} THEN 0 ELSE 1

\* the input template the planner built
Template(f) ==
  CASE f \in {1, 2} -> <<"q">> \o VariableName(0)
    [] f = 6 -> VariableName(0) \o <<",">> \o VariableName(1) \o <<",">> \o VariableName(0)
    [] f = 7 -> <<"q">> \o VariableName(0)
    [] OTHER -> <<"q", "0">>

FetchVariables(f) ==
  CASE f = 1 -> <<ObjectVariable(<<"id">>)>>
    [] f = 2 -> <<ContextVariable(<<"id">>)>>
    [] f = 6 -> <<ObjectVariable(<<"id">>), ContextVariable(<<"id">>)>>
    [] f = 7 -> <<ObjectVariable(<<"m">>), ContextVariable(<<"id">>)>>
    [] OTHER -> <<>>

DataSourceOf(f) ==
  CASE f \in {1, 2} -> "user" [] f = 3 -> "fail" [] f = 4 -> "warn" [] OTHER -> "flaky"

\* BufPair.WriteErr(message, nil, nil) on the bytes of an Errors buffer
WriteErr(errors, message) ==
  errors \o (IF errors # <<>> THEN <<",">> ELSE <<>>)
         \o <<"{", "\"", "message", "\"", ":", "\"">> \o message \o <<"\"", "}">>

UserOf(id) ==
  CASE id = "1" -> JObj(<<M("__typename", JStr(<<"User">>)), M("n", JNum("1"))>>)
    [] id = "2" -> JObj(<<M("__typename", JStr(<<"Admin">>)), M("n", JNum("2"))>>)
    [] OTHER -> JObj(<<>>)

\* DataSource.Load(ctx, input, bufPair) of the data sources of the model:
\* the error returned, the JSON written to bufPair.Data (NotExist: nothing)
\* and the bytes written to bufPair.Errors; failing tells whether the service
\* behind the "flaky" data source fails this call
DataSourceLoad(ds, input, failing) ==
  CASE ds = "user" -> [err |-> NilErr, data |-> UserOf(input[Len(input)]), errors |-> <<>>]
    [] ds = "fail" \/ (ds = "flaky" /\ failing) ->
         [err |-> loadErr, data |-> NotExist, errors |-> WriteErr(<<>>, <<"f">>)]
    [] ds = "warn" -> [err |-> NilErr, data |-> UserOf("1"), errors |-> WriteErr(<<>>, <<"w">>)]
    [] OTHER -> [err |-> NilErr, data |-> UserOf("1"), errors |-> <<>>]

\* the heap as the planner leaves it: array f holds the template of fetch f,
\* fetch f's Input is all of it; loads lists the Load calls of a request and
\* fails the calls, by their number, that the "flaky" service fails
InitialHeap ==
  [arrs |-> [f \in SingleFetches |-> Template(f)],
   input |-> [f \in SingleFetches |-> [arr |-> f, len |-> Len(Template(f))]],
   loads |-> <<>>, fails |-> {}]

\* fetch.Input as bytes
InputOf(heap, f) == SliceContent(heap.arrs, heap.input[f])

\* the *BufPair of a result set: the JSON a data source wrote to Data and
\* the bytes in Errors
NewSetPair == [Data |-> NotExist, Errors |-> <<>>]

\* Resolver.prepareSingleFetch
prepareSingleFetch(ctxVariables, f, data, set, heap) ==
  LET r == resolveVariables(ctxVariables, FetchVariables(f), data, heap.arrs, heap.input[f])
      heap1 == IF Len(FetchVariables(f)) # 0
                 THEN [heap EXCEPT !.arrs = r.arrs, !.input[f] = r.sl]
                 ELSE heap
  IN [set |-> (BufferId(f) :> NewSetPair) @@ set, heap |-> heap1]

\* Resolver.resolveSingleFetch when no call with the same fingerprint is in
\* flight (the leader's path): Load with fetch.Input into the pair
resolveSingleFetch(f, set, heap) ==
  LET out == DataSourceLoad(DataSourceOf(f), InputOf(heap, f), Len(heap.loads) + 1 \in heap.fails)
      old == set[BufferId(f)]
  IN [err |-> out.err,
      set |-> [set EXCEPT ![BufferId(f)] =
                 [Data |-> IF out.data.k = "NotExist" THEN old.Data ELSE out.data,
                  Errors |-> old.Errors \o out.errors]],
      heap |-> [heap EXCEPT !.loads = Append(@, [f |-> f, input |-> InputOf(heap, f), err |-> out.err])]]

NoFetch == [kind |-> "None", fetches |-> <<>>]
SingleFetch(f) == [kind |-> "Single", fetches |-> <<f>>]
ParallelFetch(fs) == [kind |-> "Parallel", fetches |-> fs]

RECURSIVE prepareAll(_, _, _, _, _)
prepareAll(ctxVariables, fs, data, set, heap) ==
  IF fs = <<>> THEN [set |-> set, heap |-> heap]
  ELSE LET r == prepareSingleFetch(ctxVariables, Head(fs), data, set, heap)
       IN prepareAll(ctxVariables, Tail(fs), data, r.set, r.heap)

\* the sub-fetches of a ParallelFetch: each task resolves its fetch into its
\* pair and drops the error
RECURSIVE resolveAll(_, _, _)
resolveAll(fs, set, heap) ==
  IF fs = <<>> THEN [set |-> set, heap |-> heap]
  ELSE LET r == resolveSingleFetch(Head(fs), set, heap)
       IN resolveAll(Tail(fs), r.set, r.heap)

\* Resolver.resolveFetch
resolveFetch(ctxVariables, fch, data, set, heap) ==
  IF fch.kind = "Single"
    THEN LET p == prepareSingleFetch(ctxVariables, fch.fetches[1], data, set, heap)
         IN resolveSingleFetch(fch.fetches[1], p.set, p.heap)
    ELSE LET p == prepareAll(ctxVariables, fch.fetches, data, set, heap)
             r == resolveAll(fch.fetches, p.set, p.heap)
         IN [err |-> NilErr, set |-> r.set, heap |-> r.heap]

----------------------------------------------------------------------------
\* Successive resolveFetch calls on the SingleFetch of one object, as
\* successive requests (or array elements) make them.

\* ctx.Variables of the requests, and the parent data of the objects
LongValue == <<"a", "b", "c", "d", "e", "f", "g">>
RequestJSONs ==
  {JObj(<<M("id", JNum("1"))>>), JObj(<<M("id", JNum("2"))>>),
   JObj(<<M("id", JStr(LongValue))>>), JObj(<<>>)}

NoLast == [f |-> 0, ctx |-> NotExist, data |-> NotExist, input |-> <<>>]

\* no resolveVariables call is running: i is the index of the variable, j
\* the position bytes.Index returned, input the local slice
NoSubst == [i |-> 0, j |-> 0, input |-> [arr |-> 0, len |-> 0]]

----------------------------------------------------------------------------
\* The shape tree.  Every node is a record of the same fields; item holds
\* the Item of an Array (a sequence of one node).

Node(kind, nullable, path) ==
  [kind |-> kind, nullable |-> nullable, path |-> path, async |-> FALSE,
   item |-> <<>>, fieldSets |-> <<>>, fch |-> NoFetch]

String(path, nullable) == Node("String", nullable, path)
Boolean(path, nullable) == Node("Boolean", nullable, path)
Integer(path, nullable) == Node("Integer", nullable, path)
Float(path, nullable) == Node("Float", nullable, path)
Null == Node("Null", TRUE, <<>>)
EmptyObject == Node("EmptyObject", FALSE, <<>>)
EmptyArray == Node("EmptyArray", FALSE, <<>>)
Object(path, nullable, fieldSets, fch) ==
  [Node("Object", nullable, path) EXCEPT !.fieldSets = fieldSets, !.fch = fch]
Array(path, nullable, async, item) ==
  [Node("Array", nullable, path) EXCEPT !.async = async, !.item = <<item>>]

Field(name, value) == [name |-> name, value |-> value]
\* a FieldSet; OnTypeName is nil when onTypeName.has is FALSE
FieldSet(fields) ==
  [onTypeName |-> [has |-> FALSE, name |-> <<>>], bufferID |-> 0, hasBuffer |-> FALSE,
   fields |-> fields]
OnTypeName(name, fs) == [fs EXCEPT !.onTypeName = [has |-> TRUE, name |-> name]]
WithBuffer(id, fs) == [fs EXCEPT !.hasBuffer = TRUE, !.bufferID = id]

----------------------------------------------------------------------------
\* The walker.  A BufPair is here the bytes of its two buffers; a resolve
\* function returns the error, the pair it wrote to and the heap.

lBrace == <<"{">>
rBrace == <<"}">>
lBrack == <<"[">>
rBrack == <<"]">>
comma == <<",">>
colon == <<":">>
quote == <<"\"">>
null == <<"n", "u", "l", "l">>

\* a pair as getBufPair returns it
EmptyPair == [Data |-> <<>>, Errors |-> <<>>]

Ret(err, buf, heap) == [err |-> err, buf |-> buf, heap |-> heap]

\* r.writeSafe(nil, buf.Data, bytes): a write to a bytes.Buffer does not fail
WriteData(buf, bytes) == [buf EXCEPT !.Data = @ \o bytes]

\* Resolver.MergeBufPairData
MergeBufPairData(from, to, prefixDataWithComma) ==
  IF from.Data = <<>> THEN [from |-> from, to |-> to, dataWritten |-> 0]
  ELSE [from |-> [from EXCEPT !.Data = <<>>],
        to |-> [to EXCEPT !.Data = @ \o (IF prefixDataWithComma THEN comma ELSE <<>>) \o from.Data],
        dataWritten |-> (IF prefixDataWithComma THEN 1 ELSE 0) + Len(from.Data)]

\* Resolver.MergeBufPairErrors
MergeBufPairErrors(from, to) ==
  IF from.Errors = <<>> THEN [from |-> from, to |-> to]
  ELSE [from |-> [from EXCEPT !.Errors = <<>>],
        to |-> [to EXCEPT !.Errors = @ \o (IF to.Errors # <<>> THEN comma ELSE <<>>) \o from.Errors]]

\* Resolver.MergeBufPairs
MergeBufPairs(from, to, prefixDataWithComma) ==
  LET d == MergeBufPairData(from, to, prefixDataWithComma)
      e == MergeBufPairErrors(d.from, d.to)
  IN [from |-> e.from, to |-> e.to, dataWritten |-> d.dataWritten]

NoWalk == [err |-> NilErr, buf |-> EmptyPair]

\* no ResolveGraphQLResponse call is made
WalkIdle ==
  /\ response = Null
  /\ reqData = NotExist
  /\ reqCtx = NotExist
  /\ mapRev = FALSE
  /\ wpc = "off"
  /\ itemBufs = <<>>
  /\ finished = <<>>
  /\ errChan = <<>>
  /\ taskErr = <<>>
  /\ walked = NoWalk
  /\ sink = <<>>
  /\ sinkFails = {}
  /\ sinkCalls = 0
  /\ retErr = NilErr

\* Resolver.resolveNull
resolveNull(buf) == WriteData(buf, null)

\* the jsonparser.ValueType a scalar node asks for
WantedType(kind) ==
  CASE kind = "String" -> "String" [] kind = "Boolean" -> "Boolean" [] OTHER -> "Number"

\* Resolver.resolveString / resolveBoolean / resolveInteger / resolveFloat
resolveScalar(node, data, buf, heap) ==
  LET value == JGet(data, node.path) IN
  IF value.k # WantedType(node.kind)
    THEN IF ~node.nullable THEN Ret(errNonNullableFieldValueIsNull, buf, heap)
         ELSE Ret(NilErr, resolveNull(buf), heap)
    ELSE IF node.kind = "String"
           THEN Ret(NilErr, WriteData(buf, quote \o value.s \o quote), heap)
           ELSE Ret(NilErr, WriteData(buf, value.s), heap)

\* jsonparser.ArrayEach(data, ..., path...): the values of the elements
ArrayItems(data, path) ==
  LET a == JGet(data, path)
  IN IF a.k # "Array" THEN <<>> ELSE [i \in 1..Len(a.c) |-> AsData(a.c[i].val)]

\* the keys of a result set in the order a range over the map visits them:
\* one of the two orders of the model (the order of a Go map is not fixed)
RECURSIVE Ascending(_)
Ascending(S) ==
  IF S = {} THEN <<>>
  ELSE LET m == CHOOSE x \in S : \A y \in S : x <= y IN <<m>> \o Ascending(S \ {m})
Reverse(q) == [i \in 1..Len(q) |-> q[Len(q) + 1 - i]]
RangeOrder(S, rev) == IF rev THEN Reverse(Ascending(S)) ELSE Ascending(S)

\* for i := range set.buffers { MergeBufPairErrors(set.buffers[i], objectBuf) }
RECURSIVE MergeSetErrors(_, _, _)
MergeSetErrors(set, ids, objectBuf) ==
  IF ids = <<>> THEN objectBuf
  ELSE MergeSetErrors(set, Tail(ids),
         MergeBufPairErrors([Data |-> <<>>, Errors |-> set[Head(ids)].Errors], objectBuf).to)

\* the data of a field set (lines 494-502): nil when the set has no buffer
\* with the BufferID
FieldSetData(hasSet, set, fs, data) ==
  IF hasSet /\ fs.hasBuffer
    THEN IF fs.bufferID \in DOMAIN set THEN set[fs.bufferID].Data ELSE NotExist
    ELSE data

\* typeName of jsonparser.Get(fieldSetData, "__typename")
TypeNameOf(fieldSetData) ==
  LET t == JGet(fieldSetData, <<"__typename">>) IN IF t.k = "NotExist" THEN <<>> ELSE JText(t)

RECURSIVE resolveNode(_, _, _, _, _)
RECURSIVE resolveFields(_, _, _, _, _, _, _, _, _, _)
RECURSIVE resolveArraySynchronousFrom(_, _, _, _, _, _, _, _)
RECURSIVE resolveItems(_, _, _, _, _, _)

\* resolveObject after the resolveNode of field j of field set i returned r
\* (lines 526-535); objectBuf holds the field's name
resolvedField(env, object, i, j, data, hasSet, set, st, objectBuf, r) ==
  IF r.err # NilErr
    THEN IF r.err = errNonNullableFieldValueIsNull /\ object.nullable
           THEN [done |-> TRUE, err |-> NilErr,
                 buf |-> [objectBuf EXCEPT !.Data = null], heap |-> r.heap, st |-> st]
           ELSE [done |-> TRUE, err |-> r.err, buf |-> objectBuf, heap |-> r.heap, st |-> st]
    ELSE resolveFields(env, object, i, j + 1, data, hasSet, set, [st EXCEPT !.first = FALSE],
                       MergeBufPairs(r.buf, objectBuf, FALSE).to, r.heap)

\* field j of field set i (lines 512-535), fieldSetData the data of the set
resolveField(env, object, i, j, data, hasSet, set, st, objectBuf, heap, fieldSetData) ==
  resolvedField(env, object, i, j, data, hasSet, set, st,
    WriteData(objectBuf,
      (IF st.first THEN lBrace ELSE comma) \o quote \o <<object.fieldSets[i].fields[j].name>>
        \o quote \o colon),
    resolveNode(env, object.fieldSets[i].fields[j].value, fieldSetData, EmptyPair, heap))

\* field set i from its field j on (lines 504-536), fieldSetData its data
resolveFieldSet(env, object, i, j, data, hasSet, set, st, objectBuf, heap, fieldSetData) ==
  IF j = 1 /\ object.fieldSets[i].onTypeName.has
       /\ TypeNameOf(fieldSetData) # object.fieldSets[i].onTypeName.name
    THEN resolveFields(env, object, i + 1, 1, data, hasSet, set,
                       [st EXCEPT !.typeNameSkip = TRUE], objectBuf, heap)
  ELSE IF j > Len(object.fieldSets[i].fields)
    THEN resolveFields(env, object, i + 1, 1, data, hasSet, set, st, objectBuf, heap)
  ELSE resolveField(env, object, i, j, data, hasSet, set, st, objectBuf, heap, fieldSetData)

\* the loops of resolveObject (lines 493-536) from field j of field set i on;
\* st is (first, typeNameSkip); the result has done = TRUE when resolveObject
\* returns from inside the loop
resolveFields(env, object, i, j, data, hasSet, set, st, objectBuf, heap) ==
  IF i > Len(object.fieldSets)
    THEN [done |-> FALSE, err |-> NilErr, buf |-> objectBuf, heap |-> heap, st |-> st]
    ELSE resolveFieldSet(env, object, i, j, data, hasSet, set, st, objectBuf, heap,
                         FieldSetData(hasSet, set, object.fieldSets[i], data))

\* resolveObject after its loops (lines 537-546)
resolvedFields(object, r) ==
  IF r.done THEN Ret(r.err, r.buf, r.heap)
  ELSE IF r.st.first
    THEN IF ~object.nullable
           THEN Ret(IF r.st.typeNameSkip THEN errTypeNameSkipped
                    ELSE errNonNullableFieldValueIsNull, r.buf, r.heap)
           ELSE Ret(NilErr, resolveNull(r.buf), r.heap)
    ELSE Ret(NilErr, WriteData(r.buf, rBrace), r.heap)

\* resolveObject from fieldBuf := r.getBufPair() on (lines 488-546)
resolveFieldSets(env, object, data, hasSet, set, objectBuf, heap) ==
  resolvedFields(object,
    resolveFields(env, object, 1, 1, data, hasSet, set,
                  [first |-> TRUE, typeNameSkip |-> FALSE], objectBuf, heap))
\* resolveObject merging the errors of the result set after the fields
\* instead of before them
resolvedFetchLate(env, object, data, objectBuf, f) ==
  IF f.err # NilErr THEN Ret(f.err, objectBuf, f.heap)
  ELSE LET r == resolveFieldSets(env, object, data, TRUE, f.set, objectBuf, f.heap)
       IN Ret(r.err, MergeSetErrors(f.set, RangeOrder(DOMAIN f.set, env.rev), r.buf), r.heap)

\* resolveObject after resolveFetch returned f (lines 480-486)
resolvedFetch(env, object, data, objectBuf, f) ==
  IF f.err # NilErr THEN Ret(f.err, objectBuf, f.heap)
  ELSE resolveFieldSets(env, object, data, TRUE, f.set,
         MergeSetErrors(f.set, RangeOrder(DOMAIN f.set, env.rev), objectBuf), f.heap)

\* resolveObject after the object's data is taken (lines 475-546)
resolveObjectData(env, object, data, objectBuf, heap) ==
  IF object.fch.kind = "None"
    THEN resolveFieldSets(env, object, data, FALSE, <<>>, objectBuf, heap)
    ELSE resolvedFetch(env, object, data, objectBuf,
                       resolveFetch(env.ctx, object.fch, data, <<>>, heap))

\* Resolver.resolveObject
resolveObject(env, object, data, objectBuf, heap) ==
  resolveObjectData(env, object,
    IF Len(object.path) # 0 THEN AsData(JGet(data, object.path)) ELSE data, objectBuf, heap)

\* resolveArraySynchronous after the items' pair was merged as m (lines 350-353)
mergedItem(env, array, arrayItems, i, hasPreviousItem, heap, m) ==
  resolveArraySynchronousFrom(env, array, arrayItems, i + 1, m.from,
                              hasPreviousItem \/ m.dataWritten # 0, m.to, heap)

\* resolveArraySynchronous after the resolveNode of element i returned r
\* (lines 337-353)
resolvedItem(env, array, arrayItems, i, hasPreviousItem, arrayBuf, r) ==
  IF r.err # NilErr
    THEN IF r.err = errNonNullableFieldValueIsNull /\ array.nullable
           THEN Ret(NilErr, [arrayBuf EXCEPT !.Data = null], r.heap)
         ELSE IF r.err = errTypeNameSkipped
           THEN resolveArraySynchronousFrom(env, array, arrayItems, i + 1, r.buf,
                                            hasPreviousItem, arrayBuf, r.heap)
         ELSE Ret(r.err, arrayBuf, r.heap)
    ELSE mergedItem(env, array, arrayItems, i, hasPreviousItem, r.heap,
                    MergeBufPairs(r.buf, arrayBuf, hasPreviousItem))

\* the loop of resolveArraySynchronous (lines 335-354) from element i on
resolveArraySynchronousFrom(env, array, arrayItems, i, itemBuf, hasPreviousItem, arrayBuf, heap) ==
  IF i > Len(arrayItems) THEN Ret(NilErr, WriteData(arrayBuf, rBrack), heap)
  ELSE resolvedItem(env, array, arrayItems, i, hasPreviousItem, arrayBuf,
                    resolveNode(env, array.item[1], arrayItems[i], itemBuf, heap))

\* Resolver.resolveArraySynchronous
resolveArraySynchronous(env, array, arrayItems, arrayBuf, heap) ==
  resolveArraySynchronousFrom(env, array, arrayItems, 1, EmptyPair, FALSE,
                              WriteData(arrayBuf, lBrack), heap)

\* a fold that takes the pairs in the order in which the goroutines ended
RECURSIVE FoldInCompletionOrder(_, _, _, _)
completedItem(bufSlice, i, hasPreviousItem, m) ==
  FoldInCompletionOrder(bufSlice, i + 1, hasPreviousItem \/ m.dataWritten # 0, m.to)

FoldInCompletionOrder(bufSlice, i, hasPreviousItem, arrayBuf) ==
  IF i > Len(bufSlice) THEN arrayBuf
  ELSE completedItem(bufSlice, i, hasPreviousItem,
                     MergeBufPairs(bufSlice[IF Len(finished) = Len(bufSlice)
                                              THEN finished[i] ELSE i],
                                   arrayBuf, hasPreviousItem))

\* MergeBufPairs of element i's pair in the fold (lines 406-410)
RECURSIVE FoldBufSlice(_, _, _, _)
foldedItem(bufSlice, i, hasPreviousItem, m) ==
  FoldBufSlice(bufSlice, i + 1, hasPreviousItem \/ m.dataWritten # 0, m.to)

\* the fold of resolveArrayAsynchronous (lines 402-411)
FoldBufSlice(bufSlice, i, hasPreviousItem, arrayBuf) ==
  IF i > Len(bufSlice) THEN arrayBuf
  ELSE foldedItem(bufSlice, i, hasPreviousItem,
                  MergeBufPairs(bufSlice[i], arrayBuf, hasPreviousItem))

\* resolveArrayAsynchronous after wg.Wait() (lines 389-413): errCh holds the
\* first error sent, if any; arrayBuf holds the opening bracket
JoinArrayAsynchronous(array, bufSlice, errCh, arrayBuf, heap) ==
  IF errCh # <<>>
    THEN IF errCh[1] = errNonNullableFieldValueIsNull /\ array.nullable
           THEN Ret(NilErr, [arrayBuf EXCEPT !.Data = null], heap)
           ELSE Ret(errCh[1], arrayBuf, heap)
    ELSE Ret(NilErr, WriteData(FoldBufSlice(bufSlice, 1, FALSE, arrayBuf), rBrack), heap)

\* the goroutine of resolveArrayAsynchronous after its resolveNode returned r
\* (lines 377-383): the element's pair, the error channel and the heap
resolvedTask(errCh, r) ==
  [err |-> r.err, buf |-> r.buf, heap |-> r.heap,
   errCh |-> IF r.err # NilErr /\ r.err # errTypeNameSkipped /\ errCh = <<>>
               THEN <<r.err>> ELSE errCh]

\* the goroutine of resolveArrayAsynchronous (lines 376-384) for element i
ItemTask(env, array, arrayItems, i, errCh, heap) ==
  resolvedTask(errCh, resolveNode(env, array.item[1], arrayItems[i], EmptyPair, heap))

\* the goroutines after the one of element Head(order) ended as t
ranTask(env, array, arrayItems, order, bufSlice, t) ==
  resolveItems(env, array, arrayItems, Tail(order),
               [bufSlice |-> [bufSlice EXCEPT ![Head(order)] = t.buf], errCh |-> t.errCh],
               t.heap)

\* the goroutines of an array inside an element or a field, run one after the
\* other in the order order: the pairs, the error channel and the heap
resolveItems(env, array, arrayItems, order, acc, heap) ==
  IF order = <<>> THEN [bufSlice |-> acc.bufSlice, errCh |-> acc.errCh, heap |-> heap]
  ELSE ranTask(env, array, arrayItems, order, acc.bufSlice,
               ItemTask(env, array, arrayItems, Head(order), acc.errCh, heap))

\* resolveArrayAsynchronous once its goroutines ended as r
joinedItems(array, arrayBuf, r) ==
  JoinArrayAsynchronous(array, r.bufSlice, r.errCh, WriteData(arrayBuf, lBrack), r.heap)

\* Resolver.resolveArrayAsynchronous, its goroutines run in one of the two
\* orders of the model
resolveArrayAsynchronous(env, array, arrayItems, arrayBuf, heap) ==
  joinedItems(array, arrayBuf,
    resolveItems(env, array, arrayItems, RangeOrder(1..Len(arrayItems), env.rev),
                 [bufSlice |-> [i \in 1..Len(arrayItems) |-> EmptyPair], errCh |-> <<>>],
                 heap))

\* resolveArray once the elements are collected (lines 312-322)
resolveArrayItems(env, array, arrayItems, arrayBuf, heap) ==
  IF Len(arrayItems) = 0
    THEN IF ~array.nullable THEN Ret(errNonNullableFieldValueIsNull, arrayBuf, heap)
         ELSE Ret(NilErr, resolveNull(arrayBuf), heap)
    ELSE IF array.async
           THEN resolveArrayAsynchronous(env, array, arrayItems, arrayBuf, heap)
           ELSE resolveArraySynchronous(env, array, arrayItems, arrayBuf, heap)

\* Resolver.resolveArray
resolveArray(env, array, data, arrayBuf, heap) ==
  resolveArrayItems(env, array, ArrayItems(data, array.path), arrayBuf, heap)

\* Resolver.resolveNode
resolveNode(env, node, data, bufPair, heap) ==
  CASE node.kind = "Object" -> resolveObject(env, node, data, bufPair, heap)
    [] node.kind = "Array" -> resolveArray(env, node, data, bufPair, heap)
    [] node.kind = "Null" -> Ret(NilErr, resolveNull(bufPair), heap)
    [] node.kind \in {"String", "Boolean", "Integer", "Float"} ->
         resolveScalar(node, data, bufPair, heap)
    [] node.kind = "EmptyObject" -> Ret(NilErr, WriteData(bufPair, lBrace \o rBrace), heap)
    [] node.kind = "EmptyArray" -> Ret(NilErr, WriteData(bufPair, lBrack \o rBrack), heap)
    [] OTHER -> Ret(NilErr, bufPair, heap)

\* the error a failing Write of the sink returns
errWrite == "errWrite"

\* the sink and the err of ResolveGraphQLResponse before the first write
NoWrites == [err |-> NilErr, sink |-> <<>>, calls |-> 0]

\* writer.Write(data): call number st.calls + 1 of the sink; a failing call
\* writes nothing
Write(st, data, failing) ==
  IF st.calls + 1 \in failing
    THEN [err |-> errWrite, sink |-> st.sink, calls |-> st.calls + 1]
    ELSE [err |-> NilErr, sink |-> st.sink \o data, calls |-> st.calls + 1]

\* err = r.writeSafe(err, writer, data)
writeSafe(st, data, failing) ==
  IF st.err # NilErr THEN st ELSE Write(st, data, failing)

\* _, err = buffer.WriteTo(writer): the buffer is not empty, so Write is
\* called whatever err holds, and err is assigned its result
WriteTo(st, data, failing) == Write(st, data, failing)

SafeStep(data) == [safe |-> TRUE, bytes |-> data]
DrainStep(data) == [safe |-> FALSE, bytes |-> data]

\* the writes of ResolveGraphQLResponse (lines 259-285) for the resolved buf
EnvelopeSteps(buf) ==
  <<SafeStep(lBrace)>>
  \o (IF buf.Errors # <<>>
        THEN <<SafeStep(quote), SafeStep(<<"Errors">>), SafeStep(quote), SafeStep(colon),
               SafeStep(lBrack), DrainStep(buf.Errors), SafeStep(rBrack)>>
        ELSE <<>>)
  \o (IF buf.Data # <<>>
        THEN (IF buf.Errors # <<>> THEN <<SafeStep(comma)>> ELSE <<>>)
             \o <<SafeStep(quote), SafeStep(<<"data">>), SafeStep(quote), SafeStep(colon),
                  DrainStep(buf.Data)>>
        ELSE <<>>)
  \o <<SafeStep(rBrace)>>

RECURSIVE WriteSteps(_, _, _)
WriteSteps(steps, st, failing) ==
  IF steps = <<>> THEN st
  ELSE WriteSteps(Tail(steps),
                  IF Head(steps).safe THEN writeSafe(st, Head(steps).bytes, failing)
                  ELSE WriteTo(st, Head(steps).bytes, failing),
                  failing)

\* Resolver.ResolveGraphQLResponse after resolveNode (lines 255-288): the
\* error returned, the bytes the sink received and the Write calls made
Envelope(r, failing) ==
  IF r.err # NilErr THEN [err |-> r.err, sink |-> <<>>, calls |-> 0]
  ELSE WriteSteps(EnvelopeSteps(r.buf), NoWrites, failing)

----------------------------------------------------------------------------
\* The fetches of the single-flight model and their data sources.

\* The *SingleFetch values the goroutines resolve
FlightFetches == {1, 2}

\* two more, of the data sources "ab" and "a" with the inputs "c" and "bc"
AdjoiningFetches == {3, 4}

\* DataSource.UniqueIdentifier
UniqueIdentifier(f) ==
  CASE f = 1 -> <<"a">> [] f = 2 -> <<"b">> [] f = 3 -> <<"a", "b">> [] OTHER -> <<"a">>

\* SingleFetch.Input (these fetches have no variables)
FlightInput(f) ==
  CASE f \in {1, 2} -> <<"q">> [] f = 3 -> <<"c">> [] OTHER -> <<"b", "c">>

\* DataSource.Load: the error it returns and the bytes it writes to the pair
LoadErrOf(f) == IF f = 2 THEN "loadErr" ELSE NilErr
LoadDataOf(f) == Itoa(f)
LoadErrorsOf(f) == IF f = 2 THEN <<"e">> ELSE <<>>

\* h.Write(UniqueIdentifier); h.Write(Input); h.Sum64(): the hash of the
\* identifier followed by the input
FetchID(ident, input) == ident \o input

NoCall == <<0, 0>>
NoResult == [err |-> "none", data |-> <<>>, errors |-> <<>>]

----------------------------------------------------------------------------
\* Resolver.resolveSingleFetch, one action per step

\* the planner, its mutex and the plan cache of an engine, and the
\* getCachedPlan calls of the goroutines: mu is plannerMu (0 or its holder),
\* cache the keys of executionPlanCache, epc the position of each call, op
\* its operation, hit whether its lookup found a plan, planned (history) how
\* often it invoked the planner, got the plan it returned (0: nil)
NewPlanner ==
  [mu |-> 0, cache |-> {}, epc |-> [p \in Procs |-> "idle"], op |-> [p \in Procs |-> 0],
   hit |-> [p \in Procs |-> FALSE], planned |-> [p \in Procs |-> 0],
   got |-> [p \in Procs |-> 0]]

\* no engine was constructed
NoEngine ==
  [pc |-> "off", operationMiddleware |-> <<>>, rootFieldMiddleware |-> <<>>,
   configured |-> <<>>, registered |-> <<>>, entered |-> <<>>, plans |-> NewPlanner]

\* the resolver after New, the shape trees as the planner built them
ResolverStart ==
  /\ pc = [p \in Procs |-> "idle"]
  /\ calls = [p \in Procs |-> 0]
  /\ fetch = [p \in Procs |-> 0]
  /\ pbuf = [p \in Procs |-> 0]
  /\ inflight = [p \in Procs |-> 0]
  /\ perr = [p \in Procs |-> NilErr]
  /\ ret = [p \in Procs |-> NilErr]
  /\ mu = 0
  /\ inflightFetches = <<>>
  /\ recs = [r \in Recs |-> [wg |-> 0, err |-> NilErr, data |-> NilSlice, errors |-> NilSlice]]
  /\ recPool = Recs
  /\ bufs = [b \in Bufs |-> NewBufPair]
  /\ bufPool = Bufs
  /\ follows = [p \in Procs |-> NoCall]
  /\ produced = [c \in Procs \X (1..MaxCalls) |-> NoResult]
  /\ released = [p \in Procs |-> {}]
  /\ fpc = "idle"
  /\ nreq = 0
  /\ last = NoLast
  /\ subst = NoSubst
  /\ spc = "idle"
  /\ pfetch = <<>>
  /\ prepared = 0
  /\ setBuffers = <<>>
  /\ taskBuf = <<>>
  /\ taskPc = <<>>
  /\ drawn = {}
  /\ puts = [b \in Bufs |-> 0]
  /\ writers = [b \in Bufs |-> {}]
  /\ engine = NoEngine

FlightInit == ResolverStart /\ theHeap = InitialHeap /\ WalkIdle

\* the fingerprint the running call of p computed
fetchID(p) == FetchID(UniqueIdentifier(fetch[p]), FlightInput(fetch[p]))

\* the leader call that installed record r, if it is still running
LeaderOf(r) ==
  LET L == {q \in Procs : inflight[q] = r /\ pc[q] \in {"load", "publish", "wgDone", "relock", "delete"}}
  IN IF L = {} THEN NoCall ELSE LET q == CHOOSE q \in L : TRUE IN <<q, calls[q]>>

\* prepareSingleFetch takes the pair from the pool; resolveSingleFetch begins
\* and computes the fingerprint
BeginOf(p, fetches) ==
  /\ pc[p] = "idle"
  /\ calls[p] < MaxCalls
  /\ \E f \in fetches, b \in bufPool :
       /\ fetch' = [fetch EXCEPT ![p] = f]
       /\ pbuf' = [pbuf EXCEPT ![p] = b]
       /\ bufPool' = bufPool \ {b}
  /\ calls' = [calls EXCEPT ![p] = @ + 1]
  /\ released' = [released EXCEPT ![p] =
                    {<<x, calls[x]>> : x \in {y \in Procs : pc[y] \in {"relock", "delete"}}}]
  /\ pc' = [pc EXCEPT ![p] = "lock"]
  /\ UNCHANGED <<fetchVars, walkVars, setVars, engine>>
  /\ UNCHANGED <<inflight, perr, ret, mu, inflightFetches, recs, recPool, bufs, follows, produced>>

Begin(p) == BeginOf(p, FlightFetches)

\* the same for the calls of the fetches of adjoining identifier and input
BeginAdjoining(p) == BeginOf(p, AdjoiningFetches)

\* r.inflightFetchMu.Lock() (the first)
Lock(p) ==
  /\ pc[p] = "lock"
  /\ mu = 0
  /\ mu' = p
  /\ pc' = [pc EXCEPT ![p] = "lookup"]
  /\ UNCHANGED <<fetchVars, walkVars, setVars, engine, released>>
  /\ UNCHANGED <<calls, fetch, pbuf, inflight, perr, ret, inflightFetches, recs, recPool, bufs, bufPool, follows, produced>>

\* (a variant of LookupFollower that keeps the mutex while it waits)
LookupFollowerLocked(p) ==
  /\ pc[p] = "lookup"
  /\ fetchID(p) \in DOMAIN inflightFetches
  /\ inflight' = [inflight EXCEPT ![p] = inflightFetches[fetchID(p)]]
  /\ follows' = [follows EXCEPT ![p] = LeaderOf(inflightFetches[fetchID(p)])]
  /\ pc' = [pc EXCEPT ![p] = "wait"]
  /\ UNCHANGED <<fetchVars, walkVars, setVars, engine, released>>
  /\ UNCHANGED <<calls, fetch, pbuf, perr, ret, mu, inflightFetches, recs, recPool, bufs, bufPool, produced>>

\* the record is in the map: unlock and become a follower
LookupFollower(p) ==
  /\ pc[p] = "lookup"
  /\ fetchID(p) \in DOMAIN inflightFetches
  /\ inflight' = [inflight EXCEPT ![p] = inflightFetches[fetchID(p)]]
  /\ follows' = [follows EXCEPT ![p] = LeaderOf(inflightFetches[fetchID(p)])]
  /\ mu' = 0
  /\ pc' = [pc EXCEPT ![p] = "wait"]
  /\ UNCHANGED <<fetchVars, walkVars, setVars, engine, released>>
  /\ UNCHANGED <<calls, fetch, pbuf, perr, ret, inflightFetches, recs, recPool, bufs, bufPool, produced>>

\* (a variant of LookupLeader that installs a record without looking one up)
LookupLeaderUnchecked(p) ==
  /\ pc[p] = "lookup"
  /\ \E r \in recPool :
       /\ inflight' = [inflight EXCEPT ![p] = r]
       /\ recPool' = recPool \ {r}
       /\ recs' = [recs EXCEPT ![r].wg = @ + 1]
       /\ inflightFetches' = (fetchID(p) :> r) @@ inflightFetches
  /\ mu' = 0
  /\ pc' = [pc EXCEPT ![p] = "load"]
  /\ UNCHANGED <<fetchVars, walkVars, setVars, engine, released>>
  /\ UNCHANGED <<calls, fetch, pbuf, perr, ret, bufs, bufPool, follows, produced>>

\* no record in the map: take one from the pool, wg.Add(1), install it, unlock
LookupLeader(p) ==
  /\ pc[p] = "lookup"
  /\ fetchID(p) \notin DOMAIN inflightFetches
  /\ \E r \in recPool :
       /\ inflight' = [inflight EXCEPT ![p] = r]
       /\ recPool' = recPool \ {r}
       /\ recs' = [recs EXCEPT ![r].wg = @ + 1]
       /\ inflightFetches' = (fetchID(p) :> r) @@ inflightFetches
  /\ mu' = 0
  /\ pc' = [pc EXCEPT ![p] = "load"]
  /\ UNCHANGED <<fetchVars, walkVars, setVars, engine, released>>
  /\ UNCHANGED <<calls, fetch, pbuf, perr, ret, bufs, bufPool, follows, produced>>

\* inflight.wg.Wait()
Wait(p) ==
  /\ pc[p] = "wait"
  /\ recs[inflight[p]].wg = 0
  /\ pc' = [pc EXCEPT ![p] = "copyData"]
  /\ UNCHANGED <<fetchVars, walkVars, setVars, engine, released>>
  /\ UNCHANGED <<calls, fetch, pbuf, inflight, perr, ret, mu, inflightFetches, recs, recPool, bufs, bufPool, follows, produced>>

\* the bytes a slice shows now: those of the array it aliases
SliceBytes(s, field) ==
  IF s.buf = 0 THEN <<>>
  ELSE IF field = "Data" THEN SubSeq(bufs[s.buf].Data.mem, 1, s.n)
       ELSE SubSeq(bufs[s.buf].Errors.mem, 1, s.n)

\* if inflight.data != nil { buf.Data.Write(inflight.data) }
CopyData(p) ==
  /\ pc[p] = "copyData"
  /\ LET s == recs[inflight[p]].data IN
       bufs' = IF s.buf = 0 THEN bufs
               ELSE [bufs EXCEPT ![pbuf[p]].Data = BufWrite(@, SliceBytes(s, "Data"))]
  /\ pc' = [pc EXCEPT ![p] = "copyErrors"]
  /\ UNCHANGED <<fetchVars, walkVars, setVars, engine, released>>
  /\ UNCHANGED <<calls, fetch, pbuf, inflight, perr, ret, mu, inflightFetches, recs, recPool, bufPool, follows, produced>>

\* if inflight.errors != nil { buf.Errors.Write(inflight.errors) }; return inflight.err
CopyErrors(p) ==
  /\ pc[p] = "copyErrors"
  /\ LET s == recs[inflight[p]].errors IN
       bufs' = IF s.buf = 0 THEN bufs
               ELSE [bufs EXCEPT ![pbuf[p]].Errors = BufWrite(@, SliceBytes(s, "Errors"))]
  /\ ret' = [ret EXCEPT ![p] = recs[inflight[p]].err]
  /\ pc' = [pc EXCEPT ![p] = "followerReturned"]
  /\ UNCHANGED <<fetchVars, walkVars, setVars, engine, released>>
  /\ UNCHANGED <<calls, fetch, pbuf, inflight, perr, mu, inflightFetches, recs, recPool, bufPool, follows, produced>>

\* err = fetch.DataSource.Load(ctx.Context, fetch.Input, buf)
Load(p) ==
  /\ pc[p] = "load"
  /\ bufs' = [bufs EXCEPT ![pbuf[p]] =
                [Data |-> BufWrite(@.Data, LoadDataOf(fetch[p])),
                 Errors |-> BufWrite(@.Errors, LoadErrorsOf(fetch[p]))]]
  /\ perr' = [perr EXCEPT ![p] = LoadErrOf(fetch[p])]
  /\ produced' = [produced EXCEPT ![<<p, calls[p]>>] =
                    [err |-> LoadErrOf(fetch[p]), data |-> LoadDataOf(fetch[p]),
                     errors |-> LoadErrorsOf(fetch[p])]]
  /\ pc' = [pc EXCEPT ![p] = "publish"]
  /\ UNCHANGED <<fetchVars, walkVars, setVars, engine, released>>
  /\ UNCHANGED <<calls, fetch, pbuf, inflight, ret, mu, inflightFetches, recs, recPool, bufPool, follows>>

\* inflight.err = err; inflight.data = buf.Data.Bytes(); inflight.errors = buf.Errors.Bytes()
Publish(p) ==
  /\ pc[p] = "publish"
  /\ recs' = [recs EXCEPT ![inflight[p]] =
                [wg |-> @.wg, err |-> perr[p],
                 data |-> SliceOf(pbuf[p], bufs[pbuf[p]].Data.len),
                 errors |-> SliceOf(pbuf[p], bufs[pbuf[p]].Errors.len)]]
  /\ pc' = [pc EXCEPT ![p] = "wgDone"]
  /\ UNCHANGED <<fetchVars, walkVars, setVars, engine, released>>
  /\ UNCHANGED <<calls, fetch, pbuf, inflight, perr, ret, mu, inflightFetches, recPool, bufs, bufPool, follows, produced>>
\* inflight.wg.Done()
WgDone(p) ==
  /\ pc[p] = "wgDone"
  /\ recs' = [recs EXCEPT ![inflight[p]].wg = @ - 1]
  /\ pc' = [pc EXCEPT ![p] = "relock"]
  /\ UNCHANGED <<fetchVars, walkVars, setVars, engine, released>>
  /\ UNCHANGED <<calls, fetch, pbuf, inflight, perr, ret, mu, inflightFetches, recPool, bufs, bufPool, follows, produced>>

\* r.inflightFetchMu.Lock() (the second)
Relock(p) ==
  /\ pc[p] = "relock"
  /\ mu = 0
  /\ mu' = p
  /\ pc' = [pc EXCEPT ![p] = "delete"]
  /\ UNCHANGED <<fetchVars, walkVars, setVars, engine, released>>
  /\ UNCHANGED <<calls, fetch, pbuf, inflight, perr, ret, inflightFetches, recs, recPool, bufs, bufPool, follows, produced>>

\* delete(r.inflightFetches, fetchID); unlock; return; the deferred
\* r.inflightFetchPool.Put(inflight)
Delete(p) ==
  /\ pc[p] = "delete"
  /\ inflightFetches' = [k \in DOMAIN inflightFetches \ {fetchID(p)} |-> inflightFetches[k]]
  /\ mu' = 0
  /\ ret' = [ret EXCEPT ![p] = perr[p]]
  /\ recPool' = recPool \cup {inflight[p]}
  /\ pc' = [pc EXCEPT ![p] = "leaderReturned"]
  /\ UNCHANGED <<fetchVars, walkVars, setVars, engine, released>>
  /\ UNCHANGED <<calls, fetch, pbuf, inflight, perr, recs, bufs, bufPool, follows, produced>>

\* the caller is done with the result set: freeResultSet resets the pair and
\* puts it back into the pool
Release(p) ==
  /\ pc[p] \in {"followerReturned", "leaderReturned"}
  /\ bufs' = [bufs EXCEPT ![pbuf[p]] = BufPairReset(@)]
  /\ bufPool' = bufPool \cup {pbuf[p]}
  /\ pc' = [pc EXCEPT ![p] = "idle"]
  /\ UNCHANGED <<fetchVars, walkVars, setVars, engine, released>>
  /\ UNCHANGED <<calls, fetch, pbuf, inflight, perr, ret, mu, inflightFetches, recs, recPool, follows, produced>>

FlightNext ==
  \E p \in Procs :
    \/ Begin(p)
    \/ Lock(p)
    \/ LookupFollower(p)
    \/ LookupLeader(p)
    \/ Wait(p)
    \/ CopyData(p)
    \/ CopyErrors(p)
    \/ Load(p)
    \/ Publish(p)
    \/ WgDone(p)
    \/ Relock(p)
    \/ Delete(p)
    \/ Release(p)

SpecFlight == FlightInit /\ [][FlightNext]_vars

\* the calls of the fetches of adjoining identifier and input
AdjoiningNext ==
  \E p \in Procs :
    \/ BeginAdjoining(p)
    \/ Lock(p)
    \/ LookupFollower(p)
    \/ LookupLeader(p)
    \/ Wait(p)
    \/ CopyData(p)
    \/ CopyErrors(p)
    \/ Load(p)
    \/ Publish(p)
    \/ WgDone(p)
    \/ Relock(p)
    \/ Delete(p)
    \/ Release(p)

SpecAdjoining == FlightInit /\ [][AdjoiningNext]_vars

----------------------------------------------------------------------------
\* Resolver.resolveFetch of a SingleFetch, in two steps

\* prepareSingleFetch(ctx, f, data, set) of resolveFetch
PrepareFetch ==
  /\ fpc = "idle"
  /\ nreq < MaxRequests
  /\ \E f \in SingleFetches, cv \in RequestJSONs, d \in RequestJSONs :
       /\ theHeap' = prepareSingleFetch(cv, f, d, <<>>, [theHeap EXCEPT !.loads = <<>>]).heap
       /\ last' = [f |-> f, ctx |-> cv, data |-> d, input |-> <<>>]
  /\ nreq' = nreq + 1
  /\ fpc' = "prepared"
  /\ UNCHANGED subst
  /\ UNCHANGED <<flightVars, walkVars, setVars, engine>>

\* resolveSingleFetch(ctx, f, set.buffers[f.BufferId]) of resolveFetch: Load
\* is called with fetch.Input
LoadFetch ==
  /\ fpc = "prepared"
  /\ LET r == resolveSingleFetch(last.f, (BufferId(last.f) :> NewSetPair), theHeap) IN
       /\ theHeap' = r.heap
       /\ last' = [last EXCEPT !.input = r.heap.loads[1].input]
  /\ fpc' = "idle"
  /\ UNCHANGED <<nreq, subst>>
  /\ UNCHANGED <<flightVars, walkVars, setVars, engine>>

FetchNext == PrepareFetch \/ LoadFetch

FetchInit ==
  /\ FlightInit

SpecFetch == FetchInit /\ [][FetchNext]_vars

\* resolveVariables applied over and over to the Input of one fetch, with the
\* variables of one request.

\* the fetches with variables: 6 has two variables and a marker twice, 7 a
\* variable whose value may hold the marker of the next one
VarFetches == {1, 2, 6, 7}

VarJSONs ==
  RequestJSONs \cup {JObj(<<M("id", JNum("3")), M("m", JStr(VariableName(1)))>>)}

VarHeap ==
  [arrs |-> [f \in 1..7 |-> Template(f)],
   input |-> [f \in 1..7 |-> [arr |-> f, len |-> Len(Template(f))]],
   loads |-> <<>>, fails |-> {}]

VarsInit ==
  /\ ResolverStart
  /\ WalkIdle
  /\ theHeap = VarHeap

\* the substituted Input of fetch f in the heap
resolvedVariables(heap, f, r) == [heap EXCEPT !.arrs = r.arrs, !.input[f] = r.sl]

\* fetch.Input = r.resolveVariables(ctx, fetch.Variables.variables, data,
\* fetch.Input) for the first time (line 585)
Substitute ==
  /\ fpc = "idle"
  /\ nreq = 0
  /\ \E f \in VarFetches, cv \in VarJSONs, d \in VarJSONs :
       /\ theHeap' = resolvedVariables(theHeap, f,
                        resolveVariables(cv, FetchVariables(f), d, theHeap.arrs, theHeap.input[f]))
       /\ last' = [f |-> f, ctx |-> cv, data |-> d, input |-> Template(f)]
  /\ nreq' = 1
  /\ fpc' = "prepared"
  /\ UNCHANGED subst
  /\ UNCHANGED <<flightVars, walkVars, setVars, engine>>

\* the same once more, on the Input the last application left; last.input
\* keeps the Input it was applied to
SubstituteAgain ==
  /\ fpc = "prepared"
  /\ nreq < MaxRequests
  /\ theHeap' = resolvedVariables(theHeap, last.f,
                   resolveVariables(last.ctx, FetchVariables(last.f), last.data,
                                    theHeap.arrs, theHeap.input[last.f]))
  /\ last' = [last EXCEPT !.input = InputOf(theHeap, last.f)]
  /\ nreq' = nreq + 1
  /\ UNCHANGED <<fpc, subst>>
  /\ UNCHANGED <<flightVars, walkVars, setVars, engine>>

VarsNext == Substitute \/ SubstituteAgain

SpecVars == VarsInit /\ [][VarsNext]_vars

\* the value resolveVariables extracts for each variable of a fetch
ExtractedValue(v, cv, d) == JGet(IF v.kind = "Context" THEN cv ELSE d, v.path)

\* a template with every occurrence of each marker replaced by the value
\* extracted for its variable, a marker whose extraction fails left in place
RECURSIVE Substituted(_, _, _, _)
Substituted(t, variables, cv, d) ==
  IF t = <<>> THEN <<>>
  ELSE LET I == {i \in 0..(Len(variables) - 1) :
                   /\ Len(t) >= Len(VariableName(i))
                   /\ SubSeq(t, 1, Len(VariableName(i))) = VariableName(i)
                   /\ ExtractedValue(variables[i + 1], cv, d).k # "NotExist"}
       IN IF I = {} THEN <<Head(t)>> \o Substituted(Tail(t), variables, cv, d)
          ELSE LET i == CHOOSE i \in I : TRUE
               IN JText(ExtractedValue(variables[i + 1], cv, d))
                    \o Substituted(SubSeq(t, Len(VariableName(i)) + 1, Len(t)), variables, cv, d)

\* C3 (as claimed): the resolver never mutates the shape tree: every
\* SingleFetch's Input, and the bytes of its backing array, stay as planned
C3_TemplateUnchanged ==
  \A f \in SingleFetches :
    /\ theHeap.input[f] = InitialHeap.input[f]
    /\ theHeap.arrs[f] = Template(f)

\* C4 (as claimed): the input passed to Load is the fetch's template with
\* the markers replaced by the values of this resolution
C4_LoadInputFromTemplate ==
  (fpc = "idle" /\ last.f # 0)
    => last.input = Substituted(Template(last.f), FetchVariables(last.f), last.ctx, last.data)

----------------------------------------------------------------------------
\* Claims about single-flight

\* the positions of a leader from the installation of its record to its removal
LeaderInFlight == {"load", "publish", "wgDone", "relock", "delete"}
FollowerPositions == {"wait", "copyData", "copyErrors", "followerReturned"}

\* C1: for each fingerprint at most one call is a leader between the
\* installation and the removal of its record, so at most one Load is in
\* progress per fingerprint; a call that looks the fingerprint up in that time
\* is a follower and finishes without having invoked Load, so that the two
\* calls together invoke Load exactly once.
C1_SingleFlight ==
  /\ \A p, q \in Procs :
       (p # q /\ pc[p] \in LeaderInFlight /\ pc[q] \in LeaderInFlight)
         => fetchID(p) # fetchID(q)
  /\ \A p \in Procs :
       pc[p] \in FollowerPositions
         => /\ produced[<<p, calls[p]>>] = NoResult
            /\ follows[p] # NoCall
            /\ follows[p][1] # p
  /\ \A k \in DOMAIN inflightFetches :
       \E q \in Procs : pc[q] \in LeaderInFlight /\ fetchID(q) = k /\ inflight[q] = inflightFetches[k]

\* C1 witness: a leader is inside Load while a call with the same fingerprint
\* waits on its gate as a follower
C1_Witness ==
  \E p, q \in Procs :
    /\ p # q
    /\ pc[p] = "load"
    /\ pc[q] = "wait"
    /\ fetchID(p) = fetchID(q)
    /\ follows[q] = <<p, calls[p]>>

\* C2 (as claimed): a follower returns with exactly the Data and Errors bytes
\* its leader's Load produced and with the leader's error
C2_FollowerHoldsLeaderResult ==
  \A p \in Procs :
    pc[p] = "followerReturned"
      => /\ Bytes(bufs[pbuf[p]].Data) = produced[follows[p]].data
         /\ Bytes(bufs[pbuf[p]].Errors) = produced[follows[p]].errors
         /\ ret[p] = produced[follows[p]].err

----------------------------------------------------------------------------
\* One ResolveGraphQLResponse call.  When response.Data is an Array that
\* resolves asynchronously the element goroutines are steps of their own;
\* everything else of the walk is one step.

MaxItems == 2

TypeUser == <<"User">>

\* the objects of an array (and the data of an inner object "a")
ElementJSONs ==
  {JObj(<<M("__typename", JStr(<<"User">>)), M("n", JNum("1")),
          M("a", JObj(<<M("__typename", JStr(<<"User">>))>>))>>),
   JObj(<<M("__typename", JStr(<<"Admin">>)), M("n", JNum("2")),
          M("a", JObj(<<M("__typename", JStr(<<"Admin">>))>>))>>),
   JObj(<<M("__typename", JStr(<<"User">>)),
          M("a", JObj(<<M("__typename", JStr(<<"User">>))>>))>>),
   JObj(<<M("__typename", JStr(<<"User">>)), M("n", JNum("1")),
          M("a", JObj(<<M("__typename", JStr(<<"Admin">>))>>))>>)}

ElementSeqs == UNION {[1..k -> ElementJSONs] : k \in 0..MaxItems}

\* the data of a request whose response is an array: {"xs":[...]}
ArrayDatas == {JObj(<<M("xs", JArr(xs))>>) : xs \in ElementSeqs}

\* the object "a" of an element: its one field set is for type User
InnerObject ==
  Object(<<"a">>, FALSE,
         <<OnTypeName(TypeUser, FieldSet(<<Field("t", String(<<"__typename">>, TRUE))>>))>>,
         NoFetch)

\* the shapes of an element
ItemShapes ==
  {Object(<<>>, objectNullable,
          (IF inner THEN <<FieldSet(<<Field("a", InnerObject)>>)>> ELSE <<>>)
            \o <<IF gated
                   THEN OnTypeName(TypeUser, FieldSet(<<Field("n", Integer(<<"n">>, leafNullable))>>))
                   ELSE FieldSet(<<Field("n", Integer(<<"n">>, leafNullable))>>)>>,
          fch) :
     objectNullable \in BOOLEAN, inner \in BOOLEAN, gated \in BOOLEAN,
     leafNullable \in BOOLEAN, fch \in {NoFetch, SingleFetch(3), SingleFetch(4), SingleFetch(5)}}

ArrayShapes ==
  {Array(<<"xs">>, nullable, async, item) :
     nullable \in BOOLEAN, async \in BOOLEAN, item \in ItemShapes}

\* the data of a request whose response is an object
ObjectDatas ==
  {JObj(<<M("id", JNum("1")), M("n", JNum("7"))>>), JObj(<<M("id", JNum("2"))>>), JObj(<<>>)}

ObjectFetches ==
  {NoFetch, SingleFetch(1), SingleFetch(2), SingleFetch(3), SingleFetch(4),
   ParallelFetch(<<3, 4>>), ParallelFetch(<<1, 4>>)}

\* an object with a fetch: a field set on the parent data and one on a
\* buffer of the fetch (or on the parent data as well)
ObjectShapes ==
  {Object(<<>>, nullable,
          <<FieldSet(<<Field("id", Integer(<<"id">>, TRUE))>>),
            IF gated THEN OnTypeName(TypeUser, fs) ELSE fs>>,
          fch) :
     nullable \in BOOLEAN, gated \in BOOLEAN, fch \in ObjectFetches,
     fs \in {IF id < 0 THEN FieldSet(<<Field("n", Integer(<<"n">>, leafNullable))>>)
             ELSE WithBuffer(id, FieldSet(<<Field("n", Integer(<<"n">>, leafNullable))>>)) :
               id \in {-1, 0, 1}, leafNullable \in BOOLEAN}}

ContextJSONs == {JObj(<<M("id", JNum("1"))>>), JObj(<<M("id", JNum("2"))>>)}

\* ctx of the call and the orders the model chose
Env == [ctx |-> reqCtx, rev |-> mapRev]

RootItems == ArrayItems(reqData, response.path)

\* resolveArray takes the asynchronous path at the root
RootAsynchronous ==
  response.kind = "Array" /\ response.async /\ Len(RootItems) # 0

\* the Load calls of a request that the "flaky" service may fail
FailingLoads == SUBSET (1..MaxItems)

WalkInit ==
  /\ ResolverStart
  /\ \/ /\ response \in ArrayShapes
        /\ reqData \in ArrayDatas
        /\ reqCtx = JObj(<<>>)
        /\ \E failing \in FailingLoads :
             /\ failing = {} \/ response.item[1].fch = SingleFetch(5)
             /\ theHeap = [InitialHeap EXCEPT !.fails = failing]
     \/ /\ response \in ObjectShapes
        /\ reqData \in ObjectDatas
        /\ reqCtx \in ContextJSONs
        /\ theHeap = InitialHeap
  /\ mapRev \in BOOLEAN
  /\ wpc = "start"
  /\ itemBufs = <<>>
  /\ finished = <<>>
  /\ errChan = <<>>
  /\ taskErr = <<>>
  /\ walked = NoWalk
  /\ sink = <<>>
  /\ sinkFails = {}
  /\ sinkCalls = 0
  /\ retErr = NilErr

\* resolveNode(ctx, response.Data, data, buf) when no goroutine of the root
\* is a step of its own
Resolve ==
  /\ wpc = "start"
  /\ ~RootAsynchronous
  /\ \E r \in {resolveNode(Env, response, reqData, EmptyPair, theHeap)} :
       /\ walked' = [err |-> r.err, buf |-> r.buf]
       /\ theHeap' = r.heap
  /\ wpc' = "resolved"
  /\ UNCHANGED <<engine, setVars, flightVars, fpc, nreq, last, subst, response, reqData, reqCtx, mapRev, itemBufs,
                 finished, errChan, taskErr, sink, sinkFails, sinkCalls, retErr>>

\* resolveArray and resolveArrayAsynchronous up to wg.Wait() (lines 300-386)
StartGoroutines ==
  /\ wpc = "start"
  /\ RootAsynchronous
  /\ itemBufs' = [i \in 1..Len(RootItems) |-> EmptyPair]
  /\ taskErr' = [i \in 1..Len(RootItems) |-> NilErr]
  /\ wpc' = "wait"
  /\ UNCHANGED <<engine, setVars, flightVars, fetchVars, response, reqData, reqCtx, mapRev, finished, errChan,
                 walked, sink, sinkFails, sinkCalls, retErr>>

\* the goroutine of element i (lines 376-384)
Goroutine(i) ==
  /\ wpc = "wait"
  /\ i \in 1..Len(RootItems)
  /\ \A k \in DOMAIN finished : finished[k] # i
  /\ \E t \in {ItemTask(Env, response, RootItems, i, errChan, theHeap)} :
       /\ itemBufs' = [itemBufs EXCEPT ![i] = t.buf]
       /\ taskErr' = [taskErr EXCEPT ![i] = t.err]
       /\ errChan' = t.errCh
       /\ theHeap' = t.heap
  /\ finished' = Append(finished, i)
  /\ UNCHANGED <<engine, setVars, flightVars, fpc, nreq, last, subst, response, reqData, reqCtx, mapRev, wpc, walked,
                 sink, sinkFails, sinkCalls, retErr>>

\* resolveArrayAsynchronous from the receive on (lines 388-413) and its
\* deferred calls: the receive empties errCh, freeBufPairSlice resets the
\* pairs and truncates the slice
Joined ==
  /\ \E r \in {JoinArrayAsynchronous(response, itemBufs, errChan,
                                      WriteData(EmptyPair, lBrack), theHeap)} :
       walked' = [err |-> r.err, buf |-> r.buf]
  /\ errChan' = <<>>
  /\ itemBufs' = <<>>
  /\ wpc' = "resolved"
  /\ UNCHANGED <<engine, setVars, flightVars, fetchVars, response, reqData, reqCtx, mapRev, finished,
                 taskErr, sink, sinkFails, sinkCalls, retErr>>

\* resolveArrayAsynchronous going on without wg.Wait()
JoinWithoutWait ==
  /\ wpc = "wait"
  /\ Joined

\* resolveArrayAsynchronous from wg.Wait() on (lines 386-413)
Join ==
  /\ wpc = "wait"
  /\ Len(finished) = Len(RootItems)
  /\ Joined

\* ResolveGraphQLResponse after resolveNode (lines 254-288)
Respond ==
  /\ wpc = "resolved"
  /\ \E e \in {Envelope(walked, sinkFails)} :
       /\ retErr' = e.err
       /\ sink' = e.sink
       /\ sinkCalls' = e.calls
  /\ wpc' = "returned"
  /\ UNCHANGED <<engine, setVars, flightVars, fetchVars, response, reqData, reqCtx, mapRev, itemBufs, finished,
                 errChan, taskErr, walked, sinkFails>>

WalkNext ==
  \/ Resolve
  \/ StartGoroutines
  \/ \E i \in 1..MaxItems : Goroutine(i)
  \/ Join
  \/ Respond

SpecWalk == WalkInit /\ [][WalkNext]_vars

\* The calls whose sink fails: the Write calls that return an error are
\* chosen when the call begins.

\* the most Write calls one envelope takes (lines 259-285)
MaxWrites == 15

\* at most one Write call of a sink fails
SinkFailures == {fs \in SUBSET (1..MaxWrites) : Cardinality(fs) <= 1}

SinkInit ==
  /\ ResolverStart
  /\ response \in ObjectShapes
  /\ reqData \in ObjectDatas
  /\ reqCtx \in ContextJSONs
  /\ theHeap = InitialHeap
  /\ mapRev = FALSE
  /\ wpc = "start"
  /\ itemBufs = <<>>
  /\ finished = <<>>
  /\ errChan = <<>>
  /\ taskErr = <<>>
  /\ walked = NoWalk
  /\ sink = <<>>
  /\ sinkFails \in SinkFailures
  /\ sinkCalls = 0
  /\ retErr = NilErr

SinkNext ==
  \/ Resolve
  \/ Respond

SpecSink == SinkInit /\ [][SinkNext]_vars

\* The calls that show the order of keys and elements: objects whose field
\* sets repeat names, and arrays of objects.

\* the most field sets of an object and the most fields of a field set
MaxFields == 2

KeyNames == {"id", "n"}

\* one or two nullable fields, with or without a type condition
KeyFieldSets ==
  {IF gated THEN OnTypeName(TypeUser, FieldSet(fields)) ELSE FieldSet(fields) :
     gated \in BOOLEAN,
     fields \in {[j \in DOMAIN names |-> Field(names[j], Integer(<<names[j]>>, TRUE))] :
                   names \in UNION {[1..k -> KeyNames] : k \in 1..MaxFields}}}

KeyShapes ==
  {Object(<<>>, FALSE, fieldSets, NoFetch) :
     fieldSets \in UNION {[1..k -> KeyFieldSets] : k \in 1..MaxFields}}

KeyDatas ==
  {JObj(<<M("__typename", JStr(<<"User">>)), M("id", JNum("1")), M("n", JNum("7"))>>),
   JObj(<<M("__typename", JStr(<<"Admin">>)), M("id", JNum("2"))>>)}

OrderInit ==
  /\ ResolverStart
  /\ \/ /\ response \in KeyShapes
        /\ reqData \in KeyDatas
     \/ /\ response \in {a \in ArrayShapes : a.item[1].fch \in {NoFetch, SingleFetch(4)}}
        /\ reqData \in ArrayDatas
  /\ reqCtx = JObj(<<>>)
  /\ theHeap = InitialHeap
  /\ mapRev = FALSE
  /\ wpc = "start"
  /\ itemBufs = <<>>
  /\ finished = <<>>
  /\ errChan = <<>>
  /\ taskErr = <<>>
  /\ walked = NoWalk
  /\ sink = <<>>
  /\ sinkFails = {}
  /\ sinkCalls = 0
  /\ retErr = NilErr

SpecOrder == OrderInit /\ [][WalkNext]_vars


----------------------------------------------------------------------------
\* The claims about one ResolveGraphQLResponse call.

\* the heap when the call began
StartHeap == [theHeap EXCEPT !.loads = <<>>]

\* a DataSource.Load of the call returned a non-nil error
LoadFailed == \E k \in 1..Len(theHeap.loads) : theHeap.loads[k].err # NilErr

\* C5: a non-nil error returned by DataSource.Load is never a fatal return:
\* when ResolveGraphQLResponse has returned and a Load of the call returned an
\* error, the error ResolveGraphQLResponse returned is not the data source's.
C5_LoadErrorNotFatal ==
  (wpc = "returned" /\ LoadFailed) => retErr # loadErr

\* the root array resolved by resolveArraySynchronous
SynchronousWalk ==
  resolveNode(Env, [response EXCEPT !.async = FALSE], reqData, EmptyPair, StartHeap)

\* C6: an Array with ResolveAsynchronous = true yields the same result as with
\* ResolveAsynchronous = false: when resolveNode has returned for a root array
\* that resolves asynchronously, the error and the Data and Errors buffers are
\* those of the synchronous path, whatever the order of the element goroutines.
C6_AsynchronousAsSynchronous ==
  (wpc = "resolved" /\ response.kind = "Array" /\ response.async)
    => /\ walked.err = SynchronousWalk.err
       /\ walked.buf = SynchronousWalk.buf

\* C7: null propagation: when the resolveNode of an element of a nullable array
\* returned NonNullableFieldIsNull, the array (the nearest nullable ancestor)
\* renders as exactly null and returns no error.
C7_NullPropagation ==
  (/\ wpc = "resolved"
   /\ RootAsynchronous
   /\ response.nullable
   /\ \E i \in DOMAIN taskErr : taskErr[i] = errNonNullableFieldValueIsNull)
    => /\ walked.err = NilErr
       /\ walked.buf.Data = null

\* C7 holds in the calls in which no Load returned an error
NullPropagationWhenLoadsSucceed == LoadFailed \/ C7_NullPropagation

\* no field set of the tree has a type condition
RECURSIVE Unconditional(_)
Unconditional(node) ==
  /\ \A i \in DOMAIN node.fieldSets :
       /\ ~node.fieldSets[i].onTypeName.has
       /\ \A j \in DOMAIN node.fieldSets[i].fields :
            Unconditional(node.fieldSets[i].fields[j].value)
  /\ \A i \in DOMAIN node.item : Unconditional(node.item[i])

\* data lacks a value the tree requires and no node from the value up to
\* node is nullable (field sets on the parent data only)
RECURSIVE Missing(_, _)
Missing(node, data) ==
  CASE node.kind \in {"String", "Boolean", "Integer", "Float"} ->
         ~node.nullable /\ JGet(data, node.path).k # WantedType(node.kind)
    [] node.kind = "Object" ->
         /\ ~node.nullable
         /\ \E i \in DOMAIN node.fieldSets :
              /\ ~node.fieldSets[i].hasBuffer
              /\ \E j \in DOMAIN node.fieldSets[i].fields :
                   Missing(node.fieldSets[i].fields[j].value,
                           IF Len(node.path) # 0 THEN AsData(JGet(data, node.path)) ELSE data)
    [] node.kind = "Array" ->
         /\ ~node.nullable
         /\ \/ Len(ArrayItems(data, node.path)) = 0
            \/ \E i \in 1..Len(ArrayItems(data, node.path)) :
                 Missing(node.item[1], ArrayItems(data, node.path)[i])
    [] OTHER -> FALSE

\* C8: if a non-nullable value is missing and there is no nullable ancestor up
\* to the root, ResolveGraphQLResponse returns the NonNullableFieldIsNull
\* error and has written zero bytes to the sink when it returns.
C8_RootNonNullable ==
  (wpc = "returned" /\ Unconditional(response) /\ Missing(response, reqData))
    => /\ retErr = errNonNullableFieldValueIsNull
       /\ sink = <<>>

\* C8 holds in the calls in which no Load returned an error
RootNonNullableWhenLoadsSucceed == LoadFailed \/ C8_RootNonNullable

\* element i of the root array resolved on its own
ItemAlone(i) == resolveNode(Env, response.item[1], RootItems[i], EmptyPair, StartHeap)

\* the elements from i on that are not dropped, comma-joined
RECURSIVE Remaining(_, _)
Remaining(i, hasPreviousItem) ==
  IF i > Len(RootItems) THEN <<>>
  ELSE IF ItemAlone(i).err = errTypeNameSkipped THEN Remaining(i + 1, hasPreviousItem)
  ELSE (IF hasPreviousItem THEN comma ELSE <<>>) \o ItemAlone(i).buf.Data
         \o Remaining(i + 1, TRUE)

\* C9: an array element dropped because of a type-name mismatch, directly or
\* in an object nested inside it, leaves no trace: when every element of the
\* root array either resolves or is dropped, the array is the comma-joined
\* list of the remaining elements in brackets.
C9_TypeNameSkipLeavesNoTrace ==
  (/\ wpc = "resolved"
   /\ response.kind = "Array"
   /\ \A i \in 1..Len(RootItems) : ItemAlone(i).err \in {NilErr, errTypeNameSkipped}
   /\ \E i \in 1..Len(RootItems) : ItemAlone(i).err = errTypeNameSkipped)
    => /\ walked.err = NilErr
       /\ walked.buf.Data = lBrack \o Remaining(1, FALSE) \o rBrack

\* the ids of the buffers of the result set after resolveFetch
BuffersOf(fch) == {BufferId(fch.fetches[k]) : k \in 1..Len(fch.fetches)}

\* field set i of object has a BufferID that is not in the result set
MissingBuffer(object, i) ==
  /\ object.fch.kind # "None"
  /\ object.fieldSets[i].hasBuffer
  /\ object.fieldSets[i].bufferID \notin BuffersOf(object.fch)

\* object with HasBuffer = false in the field sets whose buffer is missing
OnParentData(object) ==
  [object EXCEPT !.fieldSets =
     [i \in DOMAIN object.fieldSets |->
        IF MissingBuffer(object, i)
          THEN [object.fieldSets[i] EXCEPT !.hasBuffer = FALSE]
          ELSE object.fieldSets[i]]]

\* C10: a field set with HasBuffer = true whose BufferID is not in the result
\* set after the fetch is resolved against the parent data: the object
\* resolves as it does with HasBuffer = false in that field set.
C10_MissingBufferUsesParentData ==
  (/\ wpc = "resolved"
   /\ response.kind = "Object"
   /\ \E i \in DOMAIN response.fieldSets : MissingBuffer(response, i))
    => /\ walked.err = resolveNode(Env, OnParentData(response), reqData, EmptyPair, StartHeap).err
       /\ walked.buf = resolveNode(Env, OnParentData(response), reqData, EmptyPair, StartHeap).buf

----------------------------------------------------------------------------
\* The result set of one resolveObject call whose Fetch is a ParallelFetch:
\* resolveFetch, its sub-fetch goroutines and freeResultSet.  The pairs and
\* the pool are those of the resolver (bufs, bufPool).

\* the sub-fetches of the ParallelFetch of an object
ParallelFetches == {<<f, g>> : f \in 3..5, g \in 3..5}

BufferIds == {BufferId(f) : f \in SingleFetches}

\* no entry in set.buffers
NoPair == 0

Tasks == DOMAIN pfetch

\* resolveObject gets a result set and calls resolveFetch (lines 476-479)
SetBegin ==
  /\ spc \in {"idle", "returned"}
  /\ \E fs \in ParallelFetches :
       /\ Cardinality(bufPool) >= Len(fs)
       /\ pfetch' = fs
  /\ prepared' = 0
  /\ setBuffers' = [id \in BufferIds |-> NoPair]
  /\ taskBuf' = <<>>
  /\ taskPc' = <<>>
  /\ drawn' = {}
  /\ puts' = [b \in Bufs |-> 0]
  /\ writers' = [b \in Bufs |-> {}]
  /\ spc' = "prepare"
  /\ UNCHANGED <<engine, fetchVars, walkVars>>
  /\ UNCHANGED <<released, pc, calls, fetch, pbuf, inflight, perr, ret, mu, inflightFetches, recs,
                 recPool, bufs, bufPool, follows, produced>>

\* prepareSingleFetch of the next sub-fetch (lines 564-566, 587-588)
Prepare ==
  /\ spc = "prepare"
  /\ prepared < Len(pfetch)
  /\ \E b \in bufPool :
       /\ bufPool' = bufPool \ {b}
       /\ setBuffers' = [setBuffers EXCEPT ![BufferId(pfetch[prepared + 1])] = b]
       /\ drawn' = drawn \cup {b}
  /\ prepared' = prepared + 1
  /\ UNCHANGED <<engine, fetchVars, walkVars, spc, pfetch, taskBuf, taskPc, puts, writers>>
  /\ UNCHANGED <<released, pc, calls, fetch, pbuf, inflight, perr, ret, mu, inflightFetches, recs,
                 recPool, bufs, follows, produced>>

\* the loop that starts the goroutines (lines 569-577): each gets
\* set.buffers[BufferId] of its sub-fetch
Spawn ==
  /\ spc = "prepare"
  /\ prepared = Len(pfetch)
  /\ taskBuf' = [i \in Tasks |-> setBuffers[BufferId(pfetch[i])]]
  /\ taskPc' = [i \in Tasks |-> "ready"]
  /\ spc' = "wait"
  /\ UNCHANGED <<engine, fetchVars, walkVars, flightVars, pfetch, prepared, setBuffers, drawn, puts,
                 writers>>

\* resolveSingleFetch of goroutine i writes the result of the fetch to the
\* goroutine's buf (line 574): Load as a leader, the copy as a follower
TaskLoad(i) ==
  /\ spc = "wait"
  /\ taskPc[i] = "ready"
  /\ \E out \in {DataSourceLoad(DataSourceOf(pfetch[i]), Template(pfetch[i]), FALSE)} :
       bufs' = [bufs EXCEPT ![taskBuf[i]] =
                  [Data |-> IF out.data.k = "NotExist" THEN @.Data
                            ELSE BufWrite(@.Data, JText(out.data)),
                   Errors |-> BufWrite(@.Errors, out.errors)]]
  /\ writers' = [writers EXCEPT ![taskBuf[i]] = @ \cup {i}]
  /\ taskPc' = [taskPc EXCEPT ![i] = "loaded"]
  /\ UNCHANGED <<engine, fetchVars, walkVars, spc, pfetch, prepared, setBuffers, taskBuf, drawn, puts>>
  /\ UNCHANGED <<released, pc, calls, fetch, pbuf, inflight, perr, ret, mu, inflightFetches, recs,
                 recPool, bufPool, follows, produced>>

\* wg.Done() of goroutine i (line 575)
TaskDone(i) ==
  /\ spc = "wait"
  /\ taskPc[i] = "loaded"
  /\ taskPc' = [taskPc EXCEPT ![i] = "done"]
  /\ UNCHANGED <<engine, fetchVars, walkVars, flightVars, spc, pfetch, prepared, setBuffers, taskBuf,
                 drawn, puts, writers>>

\* wg.Wait() returns and resolveFetch with it (lines 578-580)
SetWait ==
  /\ spc = "wait"
  /\ \A i \in Tasks : taskPc[i] = "done"
  /\ spc' = "fetched"
  /\ UNCHANGED <<engine, fetchVars, walkVars, flightVars, pfetch, prepared, setBuffers, taskBuf,
                 taskPc, drawn, puts, writers>>

\* the pairs set.buffers holds
SetPairs == {setBuffers[id] : id \in BufferIds} \ {NoPair}

\* freeResultSet when resolveObject returns (lines 478, 549-556)
SetFree ==
  /\ spc = "fetched"
  /\ bufs' = [b \in Bufs |-> IF b \in SetPairs THEN BufPairReset(bufs[b]) ELSE bufs[b]]
  /\ bufPool' = bufPool \cup SetPairs
  /\ puts' = [b \in Bufs |-> IF b \in SetPairs THEN puts[b] + 1 ELSE puts[b]]
  /\ setBuffers' = [id \in BufferIds |-> NoPair]
  /\ spc' = "returned"
  /\ UNCHANGED <<engine, fetchVars, walkVars, pfetch, prepared, taskBuf, taskPc, drawn, writers>>
  /\ UNCHANGED <<released, pc, calls, fetch, pbuf, inflight, perr, ret, mu, inflightFetches, recs,
                 recPool, follows, produced>>

SetNext ==
  \/ SetBegin
  \/ Prepare
  \/ Spawn
  \/ \E i \in Tasks : TaskLoad(i)
  \/ \E i \in Tasks : TaskDone(i)
  \/ SetWait
  \/ SetFree

SpecSet == FlightInit /\ [][SetNext]_vars

----------------------------------------------------------------------------
\* The middlewares of the execution engine.  A handler is the list of the
\* code it enters when it is called: a middleware's name, then what the next
\* handler enters.  A middleware is the list of names it puts before the
\* handler it wraps, the first one being the outermost.

\* the most middlewares of a configuration, and the most UseOperation calls
MaxMiddlewares == 3

\* the middlewares of the callers: each enters its code and calls next
Middlewares == {"m1", "m2", "m3"}

MiddlewareLists == UNION {[1..k -> Middlewares] : k \in 0..MaxMiddlewares}

\* middleware mw of a caller as an OperationMiddleware
BasicMiddleware(mw) == <<mw>>

\* func(next) { return next }
Identity == <<>>

\* mw(next)
Wrap(mw, next) == mw \o next

\* func(next) { return previousMW(currentMW(next)) }
Composed(previousMW, currentMW) == previousMW \o currentMW

\* the loop of processOperationMiddleware from index i down (lines 301-307);
\* the middlewares are counted from 1
RECURSIVE processFrom(_, _, _)
processFrom(middlewares, i, middleware) ==
  IF i < 1 THEN middleware
  ELSE processFrom(middlewares, i - 1, Composed(middleware, middlewares[i]))

processOperationMiddleware(middlewares) ==
  processFrom(middlewares, Len(middlewares), Identity)

processRootFieldMiddleware(middlewares) ==
  processFrom(middlewares, Len(middlewares), Identity)

\* NewExecutionEngineV2 with a configuration of root field middlewares
NewExecutionEngineV2 ==
  /\ engine.pc = "off"
  /\ \E config \in MiddlewareLists :
       engine' = [pc |-> "ready",
                  operationMiddleware |-> processOperationMiddleware(<<>>),
                  rootFieldMiddleware |->
                    processRootFieldMiddleware([i \in DOMAIN config |-> BasicMiddleware(config[i])]),
                  configured |-> config,
                  registered |-> <<>>,
                  entered |-> <<>>,
                  plans |-> NewPlanner]
  /\ UNCHANGED <<flightVars, fetchVars, walkVars, setVars>>

\* ExecutionEngineV2.UseOperation(mw)
UseOperation(mw) ==
  /\ engine.pc = "ready"
  /\ Len(engine.registered) < MaxMiddlewares
  /\ engine' = [engine EXCEPT
                  !.operationMiddleware =
                    processOperationMiddleware(<<engine.operationMiddleware, BasicMiddleware(mw)>>),
                  !.registered = Append(@, mw),
                  !.entered = <<>>]
  /\ UNCHANGED <<flightVars, fetchVars, walkVars, setVars>>

\* ExecutionEngineV2.Execute of a valid operation: the handler the
\* middleware returns for the resolving handler is called (lines 216-244)
Execute ==
  /\ engine.pc = "ready"
  /\ engine' = [engine EXCEPT !.entered = Wrap(engine.operationMiddleware, <<"handler">>)]
  /\ UNCHANGED <<flightVars, fetchVars, walkVars, setVars>>

EngineNext ==
  \/ NewExecutionEngineV2
  \/ \E mw \in Middlewares : UseOperation(mw)
  \/ Execute

SpecEngine == FlightInit /\ [][EngineNext]_vars

\* C11: after the call returns, every BufPair got from the pool during the
\* call has been put back exactly once with Data and Errors of length 0, and
\* the result set holds none.
C11_PoolCleanliness ==
  spc = "returned" =>
    /\ \A b \in drawn :
         /\ puts[b] = 1
         /\ b \in bufPool
         /\ bufs[b].Data.len = 0
         /\ bufs[b].Errors.len = 0
    /\ SetPairs = {}

\* the BufferIds of the sub-fetches are pairwise different
DistinctBufferIds ==
  \A i, j \in Tasks : i # j => BufferId(pfetch[i]) # BufferId(pfetch[j])

\* C11 holds in the calls whose sub-fetches have different BufferIds
PoolCleanlinessWhenDistinct == DistinctBufferIds => C11_PoolCleanliness

\* a Write call the call made to the sink returned an error
SinkWriteFailed == sinkFails \cap (1..sinkCalls) # {}

\* C12: a ResolveGraphQLResponse call that made a failing write to the sink
\* returns a non-nil error, whatever the later writes did.
C12_SinkFailureIsFatal ==
  (wpc = "returned" /\ SinkWriteFailed) => retErr # NilErr

\* the last Write call the call made to the sink returned an error
LastWriteFailed == sinkCalls \in sinkFails

\* a call whose last write to the sink failed returns a non-nil error
LastSinkFailureIsFatal ==
  (wpc = "returned" /\ LastWriteFailed) => retErr # NilErr

\* the envelope of a resolved pair: the errors part when Errors is not
\* empty, a comma when both parts are there, the data part when Data is not
\* empty
EnvelopeOf(buf) ==
  <<"{">>
  \o (IF buf.Errors # <<>> THEN <<"\"", "Errors", "\"", ":", "[">> \o buf.Errors \o <<"]">>
      ELSE <<>>)
  \o (IF buf.Errors # <<>> /\ buf.Data # <<>> THEN <<",">> ELSE <<>>)
  \o (IF buf.Data # <<>> THEN <<"\"", "data", "\"", ":">> \o buf.Data ELSE <<>>)
  \o <<"}">>

\* C13: a ResolveGraphQLResponse call that returned nil has written exactly
\* one envelope to the sink: `{`, the errors part iff Errors is not empty, a
\* comma iff both parts are there, the data part iff Data is not empty, `}`;
\* a null root without errors gives {"data":null}.
C13_OneEnvelope ==
  (wpc = "returned" /\ retErr = NilErr) =>
    /\ sink = EnvelopeOf(walked.buf)
    /\ (walked.buf.Errors = <<>> /\ walked.buf.Data = <<"n", "u", "l", "l">>)
         => sink = <<"{", "\"", "data", "\"", ":", "n", "u", "l", "l", "}">>

\* C13 holds in the calls in which no write to the sink failed
OneEnvelopeWhenWritesSucceed == SinkWriteFailed \/ C13_OneEnvelope

\* the positions of the keys in rendered bytes: a token between quotes that
\* a colon follows
KeyPositions(bytes) ==
  {k \in 2..(Len(bytes) - 2) :
     bytes[k - 1] = "\"" /\ bytes[k + 1] = "\"" /\ bytes[k + 2] = ":"}

\* the keys of rendered bytes, in the order in which they appear
KeysOf(bytes) ==
  [i \in 1..Cardinality(KeyPositions(bytes)) |->
     bytes[CHOOSE k \in KeyPositions(bytes) :
             Cardinality({m \in KeyPositions(bytes) : m <= k}) = i]]

\* field set fs of an object is skipped for data
SkippedFor(fs, data) == fs.onTypeName.has /\ TypeNameOf(data) # fs.onTypeName.name

\* the names of the fields of the field sets from i on that are not skipped,
\* in declaration order
RECURSIVE DeclaredKeys(_, _, _)
DeclaredKeys(object, data, i) ==
  IF i > Len(object.fieldSets) THEN <<>>
  ELSE (IF SkippedFor(object.fieldSets[i], data) THEN <<>>
        ELSE [j \in DOMAIN object.fieldSets[i].fields |-> object.fieldSets[i].fields[j].name])
       \o DeclaredKeys(object, data, i + 1)

\* the elements from i on, each resolved on its own, comma-joined in the
\* order of the input array
RECURSIVE InInputOrder(_)
InInputOrder(i) ==
  IF i > Len(RootItems) THEN <<>>
  ELSE (IF i > 1 THEN <<",">> ELSE <<>>) \o ItemAlone(i).buf.Data \o InInputOrder(i + 1)

\* C14: order fidelity: the keys of a rendered object are the names of the
\* fields of its field sets that are not skipped, in declaration order and
\* with the repeated names; the elements of a rendered array are in the order
\* of the input array, in synchronous and in asynchronous mode, whatever the
\* order in which the element goroutines ended.
C14_OrderFidelity ==
  /\ (wpc = "resolved" /\ response.kind = "Object" /\ walked.err = NilErr)
       => KeysOf(walked.buf.Data) = DeclaredKeys(response, reqData, 1)
  /\ (/\ wpc = "resolved"
      /\ response.kind = "Array"
      /\ walked.err = NilErr
      /\ Len(RootItems) # 0
      /\ \A i \in 1..Len(RootItems) : ItemAlone(i).err = NilErr)
       => walked.buf.Data = <<"[">> \o InInputOrder(1) \o <<"]">>

\* an array resolved asynchronously whose second element's goroutine ended
\* before the first's, the two elements rendering differently
C14_Witness ==
  /\ wpc = "resolved"
  /\ response.kind = "Array"
  /\ response.async
  /\ walked.err = NilErr
  /\ finished = <<2, 1>>
  /\ ItemAlone(1).err = NilErr
  /\ ItemAlone(2).err = NilErr
  /\ ItemAlone(1).buf.Data # ItemAlone(2).buf.Data
  /\ walked.buf.Data = <<"[">> \o ItemAlone(1).buf.Data \o <<",">> \o ItemAlone(2).buf.Data \o <<"]">>

\* bytes hold no marker of a variable of the list
NoMarker(bytes, variables) ==
  \A i \in 0..(Len(variables) - 1) : Index(bytes, VariableName(i)) = 0

\* C15: resolveVariables applied to an output of resolveVariables that holds
\* no marker of its variables, with the same variables, ctx.Variables and
\* data, returns that output unchanged.
C15_SubstitutionIdempotent ==
  (nreq >= 2 /\ NoMarker(last.input, FetchVariables(last.f)))
    => InputOf(theHeap, last.f) = last.input

\* a second application to an output in which the first one replaced the
\* markers of two variables
C15_Witness ==
  /\ nreq = 2
  /\ last.f = 6
  /\ NoMarker(last.input, FetchVariables(last.f))
  /\ last.input # Template(last.f)
  /\ InputOf(theHeap, last.f) = last.input

\* C16: the first middleware is the outermost and runs first: Execute
\* enters the middlewares registered with UseOperation in the order of their
\* registration and the resolving handler last, and the root field middleware
\* of the engine enters the configured middlewares in their order and the
\* resolver last.
C16_FirstMiddlewareOutermost ==
  /\ engine.entered # <<>> => engine.entered = engine.registered \o <<"handler">>
  /\ engine.pc = "ready"
       => Wrap(engine.rootFieldMiddleware, <<"resolver">>) = engine.configured \o <<"resolver">>

\* a list from its last element to its first
Reversed(s) == [i \in DOMAIN s |-> s[Len(s) + 1 - i]]

\* the last middleware is the outermost and runs first
LastMiddlewareOutermost ==
  /\ engine.entered # <<>> => engine.entered = Reversed(engine.registered) \o <<"handler">>
  /\ engine.pc = "ready"
       => Wrap(engine.rootFieldMiddleware, <<"resolver">>)
            = Reversed(engine.configured) \o <<"resolver">>

\* the followers that obtained a record and have not finished reading it
PendingFollowers == {q \in Procs : pc[q] \in {"wait", "copyData", "copyErrors"}}

\* C17: an inflight record stays with one fetch until every follower that
\* obtained it has finished waiting and reading: while a follower is pending,
\* the only leader that holds its record is the call it followed.
C17_RecordDedicated ==
  \A q \in PendingFollowers : \A x \in Procs :
    (pc[x] \in LeaderInFlight /\ inflight[x] = inflight[q]) => <<x, calls[x]>> = follows[q]

\* a pending follower's record is held by a leader of another fingerprint
RecordOfAnotherFetch ==
  \E q \in PendingFollowers : \E x \in Procs :
    /\ pc[x] \in LeaderInFlight
    /\ inflight[x] = inflight[q]
    /\ fetchID(x) # fetchID(q)

\* no follower's record is ever with a leader of another fingerprint
NeverRecordOfAnotherFetch == ~RecordOfAnotherFetch

\* C18: no memoization: a call that began after a leader with the same
\* fingerprint had released its gate is not served from that leader's fetch:
\* it never is a follower of a call whose gate was open when it began.
C18_NoMemoization ==
  \A q \in Procs : pc[q] \in FollowerPositions => follows[q] \notin released[q]

\* C19: the buffer map of the result set is written in the serial prepare
\* phase only, which is over for every sub-fetch before a task starts; after
\* it each buffer is written by exactly one task; resolveFetch returns only
\* when every task has finished.
C19_ParallelFetchPhases ==
  /\ taskPc # <<>> => prepared = Len(pfetch)
  /\ spc \in {"wait", "fetched"}
       => \A i \in Tasks : taskBuf[i] = setBuffers[BufferId(pfetch[i])]
  /\ \A b \in Bufs : Cardinality(writers[b]) <= 1
  /\ spc = "fetched"
       => /\ \A i \in Tasks : taskPc[i] = "done"
          /\ \A b \in SetPairs : Cardinality(writers[b]) = 1

\* C19 holds in the calls whose sub-fetches have different BufferIds
ParallelFetchPhasesWhenDistinct == DistinctBufferIds => C19_ParallelFetchPhases

\* C20: the inflight mutex is held for the lookup, the insert and the delete
\* only: no call holds it while it is inside DataSource.Load or while it
\* waits on the gate of a record.
C20_MutexNotHeldAcrossLoad ==
  \A p \in Procs :
    /\ pc[p] \in {"load", "wait"} => mu # p
    /\ mu = p => pc[p] \in {"lookup", "delete"}

\* a leader is inside Load while another call holds the mutex for its lookup
C20_Witness ==
  \E p, q \in Procs :
    /\ p # q
    /\ pc[p] = "load"
    /\ pc[q] = "lookup"
    /\ mu = q

----------------------------------------------------------------------------
\* Objects with a fetch whose fields are objects with a fetch: the errors of
\* the outer and of the inner result set meet in one Errors buffer.

\* the fetches of the inner object
FieldFetches == {NoFetch, SingleFetch(4), ParallelFetch(<<3, 4>>)}

\* the inner object: a field on its data
FieldObject(nullable, fch) ==
  Object(<<>>, nullable, <<FieldSet(<<Field("n", Integer(<<"n">>, TRUE))>>)>>, fch)

\* the outer object: a field set on the parent data and the field "o", the
\* inner object, on a buffer of the fetch (or on the parent data as well)
NestedShapes ==
  {Object(<<>>, nullable,
          <<FieldSet(<<Field("id", Integer(<<"id">>, TRUE))>>),
            IF id < 0 THEN FieldSet(<<Field("o", FieldObject(innerNullable, inner))>>)
            ELSE WithBuffer(id, FieldSet(<<Field("o", FieldObject(innerNullable, inner))>>))>>,
          fch) :
     nullable \in BOOLEAN, innerNullable \in BOOLEAN, id \in {-1, 0, 1},
     fch \in ObjectFetches \ {NoFetch}, inner \in FieldFetches}

NestedInit ==
  /\ ResolverStart
  /\ response \in NestedShapes
  /\ reqData \in ObjectDatas
  /\ reqCtx \in ContextJSONs
  /\ theHeap = InitialHeap
  /\ mapRev \in BOOLEAN
  /\ wpc = "start"
  /\ itemBufs = <<>>
  /\ finished = <<>>
  /\ errChan = <<>>
  /\ taskErr = <<>>
  /\ walked = NoWalk
  /\ sink = <<>>
  /\ sinkFails = {}
  /\ sinkCalls = 0
  /\ retErr = NilErr

SpecNested == NestedInit /\ [][SinkNext]_vars

\* the Errors of the root object after its fetch f and its fields, resolved
\* into a pair of their own as fields: the errors of the buffers of the
\* result set, then the errors of the fields
FetchThenFields(f, fields) ==
  MergeBufPairErrors([Data |-> <<>>, Errors |-> fields.buf.Errors],
                     MergeSetErrors(f.set, RangeOrder(DOMAIN f.set, mapRev), EmptyPair)).to.Errors

\* the root object's Errors and Data are those of its fetch f followed by
\* its fields
ErrorsOfFetchFirst(f) ==
  \E fields \in {resolveFieldSets(Env, response, reqData, TRUE, f.set, EmptyPair, f.heap)} :
    /\ walked.buf.Errors = FetchThenFields(f, fields)
    /\ walked.buf.Data = fields.buf.Data

----------------------------------------------------------------------------
\* The join of resolveArrayAsynchronous.

\* the errors the goroutines sent or tried to send to errCh, in the order in
\* which the goroutines ended
RECURSIVE SentErrors(_)
SentErrors(k) ==
  IF k > Len(finished) THEN <<>>
  ELSE (IF taskErr[finished[k]] \notin {NilErr, errTypeNameSkipped}
          THEN <<taskErr[finished[k]]>> ELSE <<>>) \o SentErrors(k + 1)

\* what resolveArrayAsynchronous returns when first is the first error sent
Surfaced(first) ==
  IF first = errNonNullableFieldValueIsNull /\ response.nullable THEN NilErr ELSE first

\* C22: once resolveArrayAsynchronous went past its join (and so merged,
\* reset and released the elements' pairs) every element task has completed,
\* also when a task failed; it returns the first error sent to the one-slot
\* channel (a nullable array turns NonNullableFieldIsNull into null) and nil
\* when none was sent, and the channel is empty when it goes back to its pool.
C22_JoinBeforeFold ==
  (wpc \in {"resolved", "returned"} /\ RootAsynchronous) =>
    /\ Len(finished) = Len(RootItems)
    /\ \A i \in 1..Len(RootItems) : \E k \in DOMAIN finished : finished[k] = i
    /\ \E sent \in {SentErrors(1)} :
         walked.err = IF sent = <<>> THEN NilErr ELSE Surfaced(sent[1])
    /\ errChan = <<>>
    /\ itemBufs = <<>>

\* C22 witness: both element tasks failed, the second to start ended first,
\* and the call went past the join and returned that task's error
C22_Witness ==
  /\ wpc = "resolved"
  /\ RootAsynchronous
  /\ finished = <<2, 1>>
  /\ taskErr[1] \notin {NilErr, errTypeNameSkipped}
  /\ taskErr[2] \notin {NilErr, errTypeNameSkipped}
  /\ taskErr[1] # taskErr[2]
  /\ walked.err = taskErr[2]

----------------------------------------------------------------------------
\* Resolver.resolveVariables step by step: the loop over the variables and,
\* for each, the loop that replaces its marker.

\* a value that is the marker of its own variable, of the next one, or none
LoopJSONs ==
  {JObj(<<M("id", JNum("1"))>>), JObj(<<>>),
   JObj(<<M("id", JNum("3")), M("m", JStr(VariableName(1)))>>),
   JObj(<<M("id", JStr(VariableName(0))), M("m", JStr(VariableName(0)))>>),
   JObj(<<M("id", JStr(VariableName(1))), M("m", JNum("2"))>>)}

\* the variable the loop is at and the value jsonparser.Get extracts for it
LoopVariable == FetchVariables(last.f)[subst.i + 1]
LoopValue == ExtractedValue(LoopVariable, last.ctx, last.data)

\* prepareSingleFetch calls resolveVariables (line 585)
LoopBegin ==
  /\ fpc = "idle"
  /\ \E f \in VarFetches, cv \in LoopJSONs, d \in LoopJSONs :
       /\ last' = [f |-> f, ctx |-> cv, data |-> d, input |-> Template(f)]
       /\ subst' = [i |-> 0, j |-> 0, input |-> theHeap.input[f]]
  /\ fpc' = "variable"
  /\ UNCHANGED <<theHeap, nreq>>
  /\ UNCHANGED <<flightVars, walkVars, setVars, engine>>

\* the head of the loop over the variables and the extraction of the value
\* (lines 631-650); after the last variable resolveVariables returns input
\* and prepareSingleFetch assigns it to fetch.Input (lines 585, 664)
NextVariable ==
  /\ fpc = "variable"
  /\ IF subst.i >= Len(FetchVariables(last.f))
       THEN /\ theHeap' = [theHeap EXCEPT !.input[last.f] = subst.input]
            /\ fpc' = "prepared"
            /\ subst' = NoSubst
       ELSE /\ IF LoopValue.k = "NotExist"
                 THEN /\ subst' = [subst EXCEPT !.i = @ + 1]
                      /\ UNCHANGED fpc
                 ELSE /\ fpc' = "index"
                      /\ UNCHANGED subst
            /\ UNCHANGED theHeap
  /\ UNCHANGED <<nreq, last>>
  /\ UNCHANGED <<flightVars, walkVars, setVars, engine>>

\* j := bytes.Index(input, variableName); if j == -1 { break } (lines 652-655)
IndexStep ==
  /\ fpc = "index"
  /\ \E j \in {Index(SliceContent(theHeap.arrs, subst.input), VariableName(subst.i))} :
       IF j = 0
         THEN /\ subst' = [subst EXCEPT !.i = @ + 1, !.j = 0]
              /\ fpc' = "variable"
         ELSE /\ subst' = [subst EXCEPT !.j = j]
              /\ fpc' = "replace"
  /\ UNCHANGED <<theHeap, nreq, last>>
  /\ UNCHANGED <<flightVars, walkVars, setVars, engine>>

\* input = append(before, append(valueCopy, after...)...) (lines 656-660)
ReplaceStep ==
  /\ fpc = "replace"
  /\ \E content \in {SliceContent(theHeap.arrs, subst.input)} :
       \E r \in {AppendTo(theHeap.arrs, subst.input.arr, subst.j - 1,
                          JText(LoopValue)
                            \o SubSeq(content, subst.j + Len(VariableName(subst.i)), Len(content)))} :
         /\ theHeap' = [theHeap EXCEPT !.arrs = r.arrs]
         /\ subst' = [subst EXCEPT !.input = r.sl, !.j = 0]
  /\ fpc' = "index"
  /\ UNCHANGED <<nreq, last>>
  /\ UNCHANGED <<flightVars, walkVars, setVars, engine>>

LoopNext == LoopBegin \/ NextVariable \/ IndexStep \/ ReplaceStep

SpecLoop == VarsInit /\ [][LoopNext]_vars

\* the goroutine that runs resolveVariables goes on running
LiveLoop == SpecLoop /\ WF_vars(LoopNext)

\* the value extracted for the variable the loop is at holds its own marker
SelfMarker ==
  /\ fpc \in {"index", "replace"}
  /\ Index(JText(LoopValue), VariableName(subst.i)) # 0

\* C23: resolveVariables terminates: a call that began returns, whatever the
\* template, the variables, ctx.Variables and the data are, also when the
\* value extracted for a variable holds the marker of that variable or of a
\* later one.
C23_ResolveVariablesTerminates ==
  (fpc \in {"variable", "index", "replace"}) ~> (fpc = "prepared")

\* C23, the calls in which no value holds the marker of its own variable:
\* while the loop runs no value holds its marker, or the call returns
TerminatesWithoutSelfMarker ==
  (fpc \in {"variable", "index", "replace"}) ~> (fpc = "prepared" \/ SelfMarker)

----------------------------------------------------------------------------
\* What single-flight takes for the same fetch.

\* the same data source identifier and the same input
SameFetch(f, g) ==
  /\ UniqueIdentifier(f) = UniqueIdentifier(g)
  /\ FlightInput(f) = FlightInput(g)

\* C24: two calls share an inflight record only if their fetches have the
\* same data source identifier and the same input: while the leader a
\* follower found is in flight, its (UniqueIdentifier, Input) pair is the
\* follower's, also for pairs whose concatenations are equal.
C24_CoalescedOnlyIfSame ==
  \A q \in Procs : \A x \in Procs :
    (pc[q] \in FollowerPositions /\ pc[x] \in LeaderInFlight /\ follows[q] = <<x, calls[x]>>)
      => SameFetch(fetch[x], fetch[q])

----------------------------------------------------------------------------
\* The same call with the other iteration order of the result sets.

\* the walk of the call when the ranges over set.buffers go the other way
OtherOrderWalk ==
  resolveNode([ctx |-> reqCtx, rev |-> ~mapRev], response, reqData, EmptyPair, StartHeap)

\* what the call writes when its walk ended as r
WrittenAfter(r) == Envelope([err |-> r.err, buf |-> r.buf], sinkFails).sink

\* C25: for a fixed shape, data, variables and data source responses
\* ResolveGraphQLResponse writes the same bytes on every run: the bytes a
\* call wrote are those it writes when the result set map is iterated in
\* the other order, so the errors of the buffers of one ParallelFetch keep
\* their relative order.
C25_Deterministic ==
  wpc = "returned" => sink = WrittenAfter(OtherOrderWalk)

\* both buffers of the result set of the object hold errors
TwoErrorBuffers(object) == object.fch = ParallelFetch(<<3, 4>>)

\* C25 for the calls in which at most one buffer of each result set holds
\* errors (the root is an object whose field "o" is an object)
DeterministicWithOneErrorBuffer ==
  (~TwoErrorBuffers(response) /\ ~TwoErrorBuffers(response.fieldSets[2].fields[1].value))
    => C25_Deterministic

----------------------------------------------------------------------------
\* The scratch pair of resolveArraySynchronous.

\* the loop of resolveArraySynchronous over the root array from element i
\* on, itemBuf the scratch pair as the elements before left it: every
\* element whose resolution begins finds the pair empty
RECURSIVE ScratchEmptyFrom(_, _, _)
ScratchEmptyAfter(i, r) ==
  IF r.err = NilErr
    THEN ScratchEmptyFrom(i + 1, MergeBufPairs(r.buf, EmptyPair, FALSE).from, r.heap)
  ELSE IF r.err = errTypeNameSkipped THEN ScratchEmptyFrom(i + 1, r.buf, r.heap)
  ELSE TRUE

ScratchEmptyFrom(i, itemBuf, heap) ==
  IF i > Len(RootItems) THEN TRUE
  ELSE /\ itemBuf = EmptyPair
       /\ ScratchEmptyAfter(i, resolveNode(Env, response.item[1], RootItems[i], itemBuf, heap))

\* C26: in synchronous array resolution the scratch item pair is empty, Data
\* and Errors, when the resolution of each element begins, also after an
\* element that was skipped for its type name, directly or by a nested object
\* after the enclosing object had begun to write.
C26_ScratchEmptyAtEachItem ==
  (wpc = "resolved" /\ response.kind = "Array" /\ ~response.async)
    => ScratchEmptyFrom(1, EmptyPair, StartHeap)

\* C26 for the arrays whose elements have neither a fetch nor a nested
\* object: nothing is written before the type name is compared
ScratchEmptyWithoutNestedSkip ==
  (response.kind = "Array" /\ response.item[1].fch = NoFetch
     /\ \A i \in DOMAIN response.item[1].fieldSets :
      \A j \in DOMAIN response.item[1].fieldSets[i].fields :
        response.item[1].fieldSets[i].fields[j].value.kind # "Object")
    => C26_ScratchEmptyAtEachItem

----------------------------------------------------------------------------
\* Progress.  Three kinds of calls wait for others: resolveSingleFetch (for
\* the mutex and, as a follower, for the gate of a record), resolveFetch of
\* a ParallelFetch (for its tasks) and resolveArrayAsynchronous (for its
\* goroutines).  A behaviour runs one of the three.

\* concurrent resolveSingleFetch calls run (no result set call, no walk)
FlightRuns == wpc = "off" /\ spc = "idle"

\* resolveFetch calls of a ParallelFetch run
SetRuns == wpc = "off" /\ \A p \in Procs : calls[p] = 0

\* the next step of the resolveSingleFetch call of goroutine p: every step
\* but the beginning of a new call
Proceed(p) ==
  /\ FlightRuns
  /\ \/ Lock(p) \/ LookupFollower(p) \/ LookupLeader(p) \/ Wait(p) \/ CopyData(p)
     \/ CopyErrors(p) \/ Load(p) \/ Publish(p) \/ WgDone(p) \/ Relock(p) \/ Delete(p)
     \/ Release(p)

\* inflight.wg.Wait() of a follower whose record went back to the pool after
\* its gate opened and was armed again by the wg.Add(1) of another leader
\* before the follower returned from Wait: sync.WaitGroup is reused while a
\* Wait has not returned, and the Wait panics
WaitReused(p) ==
  /\ pc[p] = "wait"
  /\ recs[inflight[p]].wg # 0
  /\ LeaderOf(inflight[p]) # follows[p]
  /\ pc' = [pc EXCEPT ![p] = "panicked"]
  /\ UNCHANGED <<fetchVars, walkVars, setVars, engine, released>>
  /\ UNCHANGED <<calls, fetch, pbuf, inflight, perr, ret, mu, inflightFetches, recs, recPool, bufs, bufPool, follows, produced>>

\* the next step of a running resolveFetch call and of its tasks
SetProceed ==
  /\ SetRuns
  /\ \/ Prepare \/ Spawn \/ (\E i \in Tasks : TaskLoad(i)) \/ (\E i \in Tasks : TaskDone(i))
     \/ SetWait \/ SetFree

\* what the resolveNode of an element may return
ItemErrors == {NilErr, errTypeNameSkipped, errNonNullableFieldValueIsNull, loadErr}

\* the goroutine of element i (lines 376-384) whose resolveNode returns any
\* of these: the non-blocking send of the error, then wg.Done()
ItemEnds(i) ==
  /\ wpc = "wait"
  /\ i \in 1..Len(RootItems)
  /\ \A k \in DOMAIN finished : finished[k] # i
  /\ \E e \in ItemErrors :
       /\ taskErr' = [taskErr EXCEPT ![i] = e]
       /\ errChan' = IF e \notin {NilErr, errTypeNameSkipped} /\ errChan = <<>>
                       THEN <<e>> ELSE errChan
  /\ finished' = Append(finished, i)
  /\ UNCHANGED <<engine, setVars, flightVars, fetchVars, response, reqData, reqCtx, mapRev, wpc,
                 itemBufs, walked, sink, sinkFails, sinkCalls, retErr>>

\* the next step of resolveArrayAsynchronous and of its goroutines
ArrayProceed == StartGoroutines \/ (\E i \in 1..MaxItems : ItemEnds(i)) \/ Join

\* a call whose root is an asynchronous array of one or two elements
ArrayInit ==
  /\ ResolverStart
  /\ response \in {Array(<<"xs">>, nullable, TRUE, Integer(<<"n">>, FALSE)) : nullable \in BOOLEAN}
  /\ reqData \in {d \in ArrayDatas : Len(ArrayItems(d, <<"xs">>)) # 0}
  /\ reqCtx = JObj(<<>>)
  /\ theHeap = InitialHeap
  /\ mapRev = FALSE
  /\ wpc = "start"
  /\ itemBufs = <<>>
  /\ finished = <<>>
  /\ errChan = <<>>
  /\ taskErr = <<>>
  /\ walked = NoWalk
  /\ sink = <<>>
  /\ sinkFails = {}
  /\ sinkCalls = 0
  /\ retErr = NilErr

LiveInit == FlightInit \/ ArrayInit

\* the calls goroutine p makes: the first goroutine MaxCalls, the next one
\* less, and so on
CallsOf(p) == MaxCalls + 1 - p

LiveNext ==
  \/ \E p \in Procs : FlightRuns /\ calls[p] < CallsOf(p) /\ Begin(p)
  \/ \E p \in Procs : Proceed(p)
  \/ \E p \in Procs : FlightRuns /\ WaitReused(p)
  \/ SetRuns /\ SetBegin
  \/ SetProceed
  \/ ArrayProceed

\* every goroutine that can take a step takes one: Load returns, a goroutine
\* that is ready to run is scheduled
LiveSpec ==
  /\ LiveInit
  /\ [][LiveNext]_vars
  /\ \A p \in Procs : WF_vars(Proceed(p))
  /\ WF_vars(SetProceed)
  /\ WF_vars(ArrayProceed)

\* resolveSingleFetch returned to its caller
Returned == {"followerReturned", "leaderReturned"}

\* no resolveSingleFetch call is in progress
NoCallInProgress == \A p \in Procs : pc[p] \in Returned \cup {"idle"}

\* C27: when every Load returns, every resolveSingleFetch call returns, as a
\* leader or as a follower, under every interleaving; resolveFetch returns
\* from the join of a ParallelFetch and resolveArrayAsynchronous from the join
\* of its goroutines; when no call is in progress the inflight map is empty.
C27_EveryCallReturns ==
  /\ \A p \in Procs : (pc[p] \notin Returned \cup {"idle"}) ~> (pc[p] \in Returned)
  /\ (spc \in {"prepare", "wait"}) ~> (spc = "fetched")
  /\ (wpc \in {"start", "wait"}) ~> (wpc = "resolved")
  /\ [](NoCallInProgress => inflightFetches = <<>>)

\* a goroutine panicked inside wg.Wait()
Panicked == \E q \in Procs : pc[q] = "panicked"

\* C27 for the behaviours in which no Wait finds its WaitGroup reused: every
\* call returns unless a goroutine panicked
EveryCallReturnsUnlessReused ==
  /\ \A p \in Procs :
       (pc[p] \notin Returned \cup {"idle"}) ~> (pc[p] \in Returned \/ Panicked)
  /\ (spc \in {"prepare", "wait"}) ~> (spc = "fetched")
  /\ (wpc \in {"start", "wait"}) ~> (wpc = "resolved")
  /\ [](NoCallInProgress => inflightFetches = <<>>)

----------------------------------------------------------------------------
\* ExecutionEngineV2.getCachedPlan, called by the handler of Execute from
\* concurrent goroutines, one action per step.

\* the operations of the requests; the planner reports errors for the last
Operations == {1, 2, 3}
PlanHasErrors(operation) == operation = 3

\* hash.Sum64() of the printed operation and definition
CacheKey(operation) == operation

\* the handler of Execute calls getCachedPlan (lines 216, 227-228)
GetCachedPlan(p) ==
  /\ engine.pc = "ready"
  /\ engine.plans.epc[p] = "idle"
  /\ \E operation \in Operations :
       engine' = [engine EXCEPT !.plans.epc[p] = "lookup", !.plans.op[p] = operation,
                                !.plans.hit[p] = FALSE, !.plans.planned[p] = 0,
                                !.plans.got[p] = 0]
  /\ UNCHANGED <<flightVars, fetchVars, walkVars, setVars>>

\* e.executionPlanCache.Get(cacheKey): a hit returns the plan (lines 264-268)
CacheGet(p) ==
  /\ engine.plans.epc[p] = "lookup"
  /\ engine' = IF CacheKey(engine.plans.op[p]) \in engine.plans.cache
                 THEN [engine EXCEPT !.plans.epc[p] = "returned", !.plans.hit[p] = TRUE,
                                     !.plans.got[p] = CacheKey(engine.plans.op[p])]
                 ELSE [engine EXCEPT !.plans.epc[p] = "lock"]
  /\ UNCHANGED <<flightVars, fetchVars, walkVars, setVars>>

\* (a variant of PlannerLock that does not wait for the mutex)
PlannerLockFree(p) ==
  /\ engine.plans.epc[p] = "lock"
  /\ engine' = [engine EXCEPT !.plans.mu = p, !.plans.epc[p] = "plan",
                              !.plans.planned[p] = @ + 1]
  /\ UNCHANGED <<flightVars, fetchVars, walkVars, setVars>>

\* e.plannerMu.Lock() and the call of e.planner.Plan (lines 270-272)
PlannerLock(p) ==
  /\ engine.plans.epc[p] = "lock"
  /\ engine.plans.mu = 0
  /\ engine' = [engine EXCEPT !.plans.mu = p, !.plans.epc[p] = "plan",
                              !.plans.planned[p] = @ + 1]
  /\ UNCHANGED <<flightVars, fetchVars, walkVars, setVars>>

\* e.planner.Plan returns; if report.HasErrors() { return nil } (lines 272-275)
Planned(p) ==
  /\ engine.plans.epc[p] = "plan"
  /\ engine' = [engine EXCEPT !.plans.epc[p] =
                  IF PlanHasErrors(engine.plans.op[p]) THEN "unlock" ELSE "process"]
  /\ UNCHANGED <<flightVars, fetchVars, walkVars, setVars>>

\* p := ctx.postProcessor.Process(planResult); e.executionPlanCache.Add(cacheKey, p)
\* (lines 277-278)
ProcessAndAdd(p) ==
  /\ engine.plans.epc[p] = "process"
  /\ engine' = [engine EXCEPT !.plans.cache = @ \cup {CacheKey(engine.plans.op[p])},
                              !.plans.got[p] = CacheKey(engine.plans.op[p]),
                              !.plans.epc[p] = "unlock"]
  /\ UNCHANGED <<flightVars, fetchVars, walkVars, setVars>>

\* the deferred e.plannerMu.Unlock() (line 271) and the return
PlannerUnlock(p) ==
  /\ engine.plans.epc[p] = "unlock"
  /\ engine' = [engine EXCEPT !.plans.mu = 0, !.plans.epc[p] = "returned"]
  /\ UNCHANGED <<flightVars, fetchVars, walkVars, setVars>>

\* the handler goes on with the plan or returns the report (lines 229-241)
HandlerReturns(p) ==
  /\ engine.plans.epc[p] = "returned"
  /\ engine' = [engine EXCEPT !.plans.epc[p] = "idle"]
  /\ UNCHANGED <<flightVars, fetchVars, walkVars, setVars>>

PlanNext ==
  \/ NewExecutionEngineV2
  \/ \E p \in Procs :
       \/ GetCachedPlan(p)
       \/ CacheGet(p)
       \/ PlannerLock(p)
       \/ Planned(p)
       \/ ProcessAndAdd(p)
       \/ PlannerUnlock(p)
       \/ HandlerReturns(p)

SpecPlan == FlightInit /\ [][PlanNext]_vars

\* the calls inside e.planner.Plan or ctx.postProcessor.Process
InPlanner == {p \in Procs : engine.plans.epc[p] \in {"plan", "process"}}

\* C28: across concurrent Execute calls the planner never runs for two calls
\* at once (planning and post-processing happen with plannerMu held), a call
\* whose lookup hits returns the cached plan without having invoked the
\* planner, and the cache holds only plans whose planning reported no errors.
C28_PlannerExclusive ==
  /\ Cardinality(InPlanner) <= 1
  /\ \A p \in InPlanner : engine.plans.mu = p
  /\ \A p \in Procs :
       engine.plans.hit[p]
         => /\ engine.plans.planned[p] = 0
            /\ engine.plans.got[p] = CacheKey(engine.plans.op[p])
  /\ \A k \in engine.plans.cache : \A operation \in Operations :
       CacheKey(operation) = k => ~PlanHasErrors(operation)

\* C28 witness: a call post-processes its plan with the mutex held while
\* another call that missed the same key waits for the mutex, and the cache
\* already holds a plan of another operation
C28_Witness ==
  \E p, q \in Procs :
    /\ p # q
    /\ engine.plans.epc[p] = "process"
    /\ engine.plans.epc[q] = "lock"
    /\ engine.plans.op[p] = engine.plans.op[q]
    /\ engine.plans.mu = p
    /\ engine.plans.cache # {}

====
